---------------------------- MODULE Spec2Model ----------------------------
(***************************************************************************)
(* Board-support drivers of the OS-Q/N01 repository:                       *)
(*   - the Quad-SPI NOR flash driver (stm32l476g_eval_qspi.c), and         *)
(*   - the LCD raster graphics driver (stm32303c_eval_lcd.c).              *)
(* Every public function is one action that runs the whole function.  The  *)
(* calls a function makes to the layer below it (the HAL transport, the    *)
(* LCD component driver) are recorded, in order, in the variable `trace'.  *)
(* The caller is a loop: it makes one call (pc = "idle" -> "returned"),    *)
(* looks at the result, and goes on (Return).                              *)
(***************************************************************************)
EXTENDS Integers, Sequences, FiniteSets, TLC

VARIABLES
  pc,          \* "idle": the caller is about to call; "returned": a call returned
  call,        \* the call that returned last: its name and arguments
  ret,         \* what it returned
  trace,       \* the calls it made to the layer below, in order
  QSPIHandle,  \* qspi.c:88   the driver's HAL handle (Instance, Init)
  pInfo,       \* the QSPI_Info structure the caller hands to BSP_QSPI_GetInfo
  DrawProp,    \* lcd.c:110   TextColor, BackColor, pFont
  lcd_drv,     \* lcd.c:112   the component driver: its name and its non-NULL entries
  bitmap,      \* lcd.c:115   the glyph scratch buffer: header fields, pixels
  window       \* the window last handed to the SetDisplayWindow entry, <<0, 0, 0, 0>> before any

vars == <<pc, call, ret, trace, QSPIHandle, pInfo, DrawProp, lcd_drv, bitmap, window>>

qspiVars == <<QSPIHandle, pInfo>>
lcdVars  == <<DrawProp, lcd_drv, bitmap, window>>
\* what only BSP_LCD_Init and the bitmap functions change
lcdDev   == <<lcd_drv, bitmap, window>>

-----------------------------------------------------------------------------
(* Bounds of the model.                                                     *)

\* Addresses and sizes are taken within MaxOff of 0, of the page multiples
\* and of 2^32.
MaxOff == 2
\* Sizes reach MaxPages pages (plus MaxOff).
MaxPages == 2
\* Polygons have 0..MaxPoints vertices.
MaxPoints == 3
\* Strings have 0..MaxText characters.
MaxText == 2
\* LCD coordinates are 0..MaxCoord, and a few beyond the int16_t range.
MaxCoord == 3
\* Circle radii are 0..MaxRadius.
MaxRadius == 4
\* Lengths of horizontal and vertical lines are 0..MaxLen.
MaxLen == 3
\* The display is LcdWidth x LcdHeight pixels.
LcdWidth == 8
LcdHeight == 6

-----------------------------------------------------------------------------
(* uint32_t.  TLC's integers are 32-bit signed, so a uint32_t is kept as    *)
(* its two 16-bit halves: the value is hi * 65536 + lo.                     *)

Half == 2^16

U32(h, l) == [hi |-> h, lo |-> l]
\* a small natural number as a uint32_t
ToU32(n) == U32(n \div Half, n % Half)
\* a + b, modulo 2^32
U32Add(a, b) ==
  LET l == a.lo + b.lo
  IN  U32((a.hi + b.hi + (l \div Half)) % Half, l % Half)
\* a - b, modulo 2^32
U32Sub(a, b) ==
  LET l == a.lo - b.lo
      borrow == IF l < 0 THEN 1 ELSE 0
  IN  U32((a.hi - b.hi - borrow) % Half, l % Half)
U32Lt(a, b) == a.hi < b.hi \/ (a.hi = b.hi /\ a.lo < b.lo)
U32Gt(a, b) == U32Lt(b, a)
\* a % m, for an m that divides 65536
U32Mod(a, m) == a.lo % m
U32Le(a, b) == ~U32Lt(b, a)
\* a << 2, modulo 2^32
U32Shl2(a) ==
  LET l == a.lo * 4
  IN  U32((a.hi * 4 + (l \div Half)) % Half, l % Half)
\* an int (possibly negative) converted to uint32_t, i.e. its int32_t bits
IntToU32(v) == U32((v \div Half) % Half, v % Half)
\* the int32_t with these bits is negative
I32Neg(a) == a.hi >= 2^15
\* a field of a command that the code leaves unset
U32None == U32(-1, -1)


-----------------------------------------------------------------------------
(* Constants of n25q256a.h, stm32l476g_eval_qspi.h and the HAL headers.     *)

N25Q256A_FLASH_SIZE == 33554432
N25Q256A_SUBSECTOR_SIZE == 4096
N25Q256A_PAGE_SIZE == 256
N25Q256A_DUMMY_CYCLES_READ_QUAD == 10
N25Q256A_BULK_ERASE_MAX_TIME == 480000
N25Q256A_SUBSECTOR_ERASE_MAX_TIME == 800
HAL_QPSI_TIMEOUT_DEFAULT_VALUE == 5000
\* status register
N25Q256A_SR_WIP == 1
N25Q256A_SR_WREN == 2
\* volatile configuration register: the dummy-cycle field
N25Q256A_VCR_NB_DUMMY == 240
\* flag status register
N25Q256A_FSR_PRERR == 2
N25Q256A_FSR_PGSUS == 4
N25Q256A_FSR_VPPERR == 8
N25Q256A_FSR_PGERR == 16
N25Q256A_FSR_ERERR == 32
N25Q256A_FSR_ERSUS == 64
N25Q256A_FSR_READY == 128

\* the values BSP_QSPI_* return
QSPI_OK == "QSPI_OK"
QSPI_ERROR == "QSPI_ERROR"
QSPI_BUSY == "QSPI_BUSY"
QSPI_NOT_SUPPORTED == "QSPI_NOT_SUPPORTED"
QSPI_SUSPENDED == "QSPI_SUSPENDED"

\* a & b and a | b on naturals
RECURSIVE BitAnd(_, _)
BitAnd(a, b) ==
  IF a = 0 \/ b = 0 THEN 0
  ELSE (a % 2) * (b % 2) + 2 * BitAnd(a \div 2, b \div 2)
RECURSIVE BitOr(_, _)
BitOr(a, b) ==
  IF a = 0 THEN b
  ELSE IF b = 0 THEN a
  ELSE (IF a % 2 = 1 \/ b % 2 = 1 THEN 1 ELSE 0) + 2 * BitOr(a \div 2, b \div 2)
\* POSITION_VAL(m): the index of the lowest set bit of m
RECURSIVE POSITION_VAL(_)
POSITION_VAL(m) == IF m % 2 = 1 THEN 0 ELSE 1 + POSITION_VAL(m \div 2)
\* MODIFY_REG(REG, CLEARMASK, SETMASK) on a uint8_t:
\* REG = (REG & ~CLEARMASK) | SETMASK
MODIFY_REG(reg, clearmask, setmask) ==
  BitOr(BitAnd(reg, 255 - clearmask), setmask) % 256

-----------------------------------------------------------------------------
(* The HAL transport.  A call to it is one entry of the trace; whether it   *)
(* succeeds is the environment's choice: `fails' is the set of trace        *)
(* positions whose call returns something other than HAL_OK (an error or a  *)
(* timeout; for HAL_QSPI_AutoPolling, the status never matched in time).    *)

\* a command frame (QSPI_CommandTypeDef): the fields the driver sets
Frame(instr, amode, addr, dmode, dummy, nb) ==
  [Instruction |-> instr, AddressMode |-> amode, Address |-> addr,
   DataMode |-> dmode, DummyCycles |-> dummy, NbData |-> nb]
NoFrame == Frame("-", "-", U32None, "-", -1, U32None)

\* one call to the layer below, as the trace records it
Entry(fn, frame, match, mask, timeout, buf, off, val) ==
  [fn |-> fn, cmd |-> frame, Match |-> match, Mask |-> mask,
   Timeout |-> timeout, buf |-> buf, off |-> off, val |-> val, ok |-> TRUE]

\* the state of a running function: the trace so far and the last HAL result
Run(t, ok) == [t |-> t, ok |-> ok]
\* the call is made: it is appended to the trace, and fails if the
\* environment says so
HalCall(t, fails, e) ==
  LET ok == (Len(t) + 1) \notin fails
  IN  Run(Append(t, [e EXCEPT !.ok = ok]), ok)

HAL_QSPI_Command(t, fails, frame, timeout) ==
  HalCall(t, fails, Entry("HAL_QSPI_Command", frame, -1, -1, timeout, "-", U32None, -1))
\* pData is the buffer `buf' at offset `off'; val is the byte sent when the
\* buffer is the local `reg'
HAL_QSPI_Transmit(t, fails, buf, off, val, timeout) ==
  HalCall(t, fails, Entry("HAL_QSPI_Transmit", NoFrame, -1, -1, timeout, buf, off, val))
HAL_QSPI_Receive(t, fails, buf, val, timeout) ==
  HalCall(t, fails, Entry("HAL_QSPI_Receive", NoFrame, -1, -1, timeout, buf, ToU32(0), val))
HAL_QSPI_AutoPolling(t, fails, frame, match, mask, timeout) ==
  HalCall(t, fails, Entry("HAL_QSPI_AutoPolling", frame, match, mask, timeout, "-", U32None, -1))
HAL_QSPI_MemoryMapped(t, fails, frame) ==
  HalCall(t, fails, Entry("HAL_QSPI_MemoryMapped", frame, -1, -1, -1, "-", U32None, -1))
HAL_QSPI_DeInit(t, fails) ==
  HalCall(t, fails, Entry("HAL_QSPI_DeInit", NoFrame, -1, -1, -1, "-", U32None, -1))
HAL_QSPI_Init(t, fails) ==
  HalCall(t, fails, Entry("HAL_QSPI_Init", NoFrame, -1, -1, -1, "-", U32None, -1))
\* QSPI_MspInit and QSPI_MspDeInit return nothing and cannot fail
QSPI_MspInit(t) ==
  Run(Append(t, Entry("QSPI_MspInit", NoFrame, -1, -1, -1, "-", U32None, -1)), TRUE)
QSPI_MspDeInit(t) ==
  Run(Append(t, Entry("QSPI_MspDeInit", NoFrame, -1, -1, -1, "-", U32None, -1)), TRUE)

\* what a driver function hands back: the trace and its return value
Res(t, r) == [t |-> t, ret |-> r]

-----------------------------------------------------------------------------
(* Private functions of the QSPI driver.                                    *)

\* QSPI_WriteEnable reporting QSPI_OK when the poll for the latch timed out
QSPI_WriteEnable_IgnorePoll(t, fails) ==
  LET c == HAL_QSPI_Command(t, fails,
             Frame("WRITE_ENABLE_CMD", "QSPI_ADDRESS_NONE", U32None,
                   "QSPI_DATA_NONE", 0, U32None),
             HAL_QPSI_TIMEOUT_DEFAULT_VALUE)
  IN  IF ~c.ok THEN Res(c.t, QSPI_ERROR)
      ELSE
        LET p == HAL_QSPI_AutoPolling(c.t, fails,
                   Frame("READ_STATUS_REG_CMD", "QSPI_ADDRESS_NONE", U32None,
                         "QSPI_DATA_1_LINE", 0, U32None),
                   N25Q256A_SR_WREN, N25Q256A_SR_WREN,
                   HAL_QPSI_TIMEOUT_DEFAULT_VALUE)
        IN  Res(p.t, QSPI_OK)

QSPI_WriteEnable(t, fails) ==
  LET c == HAL_QSPI_Command(t, fails,
             Frame("WRITE_ENABLE_CMD", "QSPI_ADDRESS_NONE", U32None,
                   "QSPI_DATA_NONE", 0, U32None),
             HAL_QPSI_TIMEOUT_DEFAULT_VALUE)
  IN  IF ~c.ok THEN Res(c.t, QSPI_ERROR)
      ELSE
        LET p == HAL_QSPI_AutoPolling(c.t, fails,
                   Frame("READ_STATUS_REG_CMD", "QSPI_ADDRESS_NONE", U32None,
                         "QSPI_DATA_1_LINE", 0, U32None),
                   N25Q256A_SR_WREN, N25Q256A_SR_WREN,
                   HAL_QPSI_TIMEOUT_DEFAULT_VALUE)
        IN  IF ~p.ok THEN Res(p.t, QSPI_ERROR) ELSE Res(p.t, QSPI_OK)

\* QSPI_AutoPollingMemReady with the result of the poll ignored
QSPI_AutoPollingMemReady_Ignore(t, fails, Timeout) ==
  LET p == HAL_QSPI_AutoPolling(t, fails,
             Frame("READ_STATUS_REG_CMD", "QSPI_ADDRESS_NONE", U32None,
                   "QSPI_DATA_1_LINE", 0, U32None),
             0, N25Q256A_SR_WIP, Timeout)
  IN  Res(p.t, QSPI_OK)

QSPI_AutoPollingMemReady(t, fails, Timeout) ==
  LET p == HAL_QSPI_AutoPolling(t, fails,
             Frame("READ_STATUS_REG_CMD", "QSPI_ADDRESS_NONE", U32None,
                   "QSPI_DATA_1_LINE", 0, U32None),
             0, N25Q256A_SR_WIP, Timeout)
  IN  IF ~p.ok THEN Res(p.t, QSPI_ERROR) ELSE Res(p.t, QSPI_OK)

QSPI_ResetMemory(t, fails) ==
  LET c1 == HAL_QSPI_Command(t, fails,
              Frame("RESET_ENABLE_CMD", "QSPI_ADDRESS_NONE", U32None,
                    "QSPI_DATA_NONE", 0, U32None),
              HAL_QPSI_TIMEOUT_DEFAULT_VALUE)
  IN  IF ~c1.ok THEN Res(c1.t, QSPI_ERROR)
      ELSE
        LET c2 == HAL_QSPI_Command(c1.t, fails,
                    Frame("RESET_MEMORY_CMD", "QSPI_ADDRESS_NONE", U32None,
                          "QSPI_DATA_NONE", 0, U32None),
                    HAL_QPSI_TIMEOUT_DEFAULT_VALUE)
        IN  IF ~c2.ok THEN Res(c2.t, QSPI_ERROR)
            ELSE
              LET r == QSPI_AutoPollingMemReady(c2.t, fails,
                         HAL_QPSI_TIMEOUT_DEFAULT_VALUE)
              IN  IF r.ret # QSPI_OK THEN Res(r.t, QSPI_ERROR)
                  ELSE Res(r.t, QSPI_OK)

QSPI_EnterFourBytesAddress(t, fails) ==
  LET we == QSPI_WriteEnable(t, fails)
  IN  IF we.ret # QSPI_OK THEN Res(we.t, QSPI_ERROR)
      ELSE
        LET c == HAL_QSPI_Command(we.t, fails,
                   Frame("ENTER_4_BYTE_ADDR_MODE_CMD", "QSPI_ADDRESS_NONE", U32None,
                         "QSPI_DATA_NONE", 0, U32None),
                   HAL_QPSI_TIMEOUT_DEFAULT_VALUE)
        IN  IF ~c.ok THEN Res(c.t, QSPI_ERROR)
            ELSE
              LET r == QSPI_AutoPollingMemReady(c.t, fails,
                         HAL_QPSI_TIMEOUT_DEFAULT_VALUE)
              IN  IF r.ret # QSPI_OK THEN Res(r.t, QSPI_ERROR)
                  ELSE Res(r.t, QSPI_OK)

\* vcr: the value the memory answers to READ_VOL_CFG_REG_CMD
QSPI_DummyCyclesCfg(t, fails, vcr) ==
  LET c1 == HAL_QSPI_Command(t, fails,
              Frame("READ_VOL_CFG_REG_CMD", "QSPI_ADDRESS_NONE", U32None,
                    "QSPI_DATA_1_LINE", 0, ToU32(1)),
              HAL_QPSI_TIMEOUT_DEFAULT_VALUE)
  IN  IF ~c1.ok THEN Res(c1.t, QSPI_ERROR)
      ELSE
        LET rx == HAL_QSPI_Receive(c1.t, fails, "reg", vcr,
                    HAL_QPSI_TIMEOUT_DEFAULT_VALUE)
        IN  IF ~rx.ok THEN Res(rx.t, QSPI_ERROR)
            ELSE
              LET we == QSPI_WriteEnable(rx.t, fails)
              IN  IF we.ret # QSPI_OK THEN Res(we.t, QSPI_ERROR)
                  ELSE
                    LET reg == MODIFY_REG(vcr, N25Q256A_VCR_NB_DUMMY,
                                 N25Q256A_DUMMY_CYCLES_READ_QUAD
                                   * 2^POSITION_VAL(N25Q256A_VCR_NB_DUMMY))
                        c2 == HAL_QSPI_Command(we.t, fails,
                                Frame("WRITE_VOL_CFG_REG_CMD", "QSPI_ADDRESS_NONE",
                                      U32None, "QSPI_DATA_1_LINE", 0, ToU32(1)),
                                HAL_QPSI_TIMEOUT_DEFAULT_VALUE)
                    IN  IF ~c2.ok THEN Res(c2.t, QSPI_ERROR)
                        ELSE
                          LET tx == HAL_QSPI_Transmit(c2.t, fails, "reg", ToU32(0),
                                      reg, HAL_QPSI_TIMEOUT_DEFAULT_VALUE)
                          IN  IF ~tx.ok THEN Res(tx.t, QSPI_ERROR)
                              ELSE Res(tx.t, QSPI_OK)

-----------------------------------------------------------------------------
(* Exported functions of the QSPI driver.                                   *)

\* QSPIHandle as the C runtime zero-initialises it
HandleZero ==
  [Instance |-> "NULL",
   Init |-> [ClockPrescaler |-> 0, FifoThreshold |-> 0, SampleShifting |-> "0",
             FlashSize |-> 0, ChipSelectHighTime |-> "0", ClockMode |-> "0"]]
\* the Init fields BSP_QSPI_Init sets
HandleInit ==
  [ClockPrescaler |-> 1, FifoThreshold |-> 4,
   SampleShifting |-> "QSPI_SAMPLE_SHIFTING_NONE",
   FlashSize |-> POSITION_VAL(N25Q256A_FLASH_SIZE) - 1,
   ChipSelectHighTime |-> "QSPI_CS_HIGH_TIME_1_CYCLE",
   ClockMode |-> "QSPI_CLOCK_MODE_0"]

\* a result that also carries the handle the function leaves
ResH(t, r, h) == [t |-> t, ret |-> r, h |-> h]

\* BSP_QSPI_Init reporting a failed memory reset as QSPI_ERROR
BSP_QSPI_Init_ResetError(h, fails, vcr) ==
  LET h1 == [h EXCEPT !.Instance = "QUADSPI"]
      d  == HAL_QSPI_DeInit(<<>>, fails)
  IN  IF ~d.ok THEN ResH(d.t, QSPI_ERROR, h1)
      ELSE
        LET m  == QSPI_MspInit(d.t)
            h2 == [h1 EXCEPT !.Init = HandleInit]
            i  == HAL_QSPI_Init(m.t, fails)
        IN  IF ~i.ok THEN ResH(i.t, QSPI_ERROR, h2)
            ELSE
              LET r == QSPI_ResetMemory(i.t, fails)
              IN  IF r.ret # QSPI_OK THEN ResH(r.t, QSPI_ERROR, h2)
                  ELSE
                    LET e == QSPI_EnterFourBytesAddress(r.t, fails)
                    IN  IF e.ret # QSPI_OK THEN ResH(e.t, QSPI_NOT_SUPPORTED, h2)
                        ELSE
                          LET c == QSPI_DummyCyclesCfg(e.t, fails, vcr)
                          IN  IF c.ret # QSPI_OK
                              THEN ResH(c.t, QSPI_NOT_SUPPORTED, h2)
                              ELSE ResH(c.t, QSPI_OK, h2)

\* BSP_QSPI_Init switching to 4-byte addresses before the memory is reset
BSP_QSPI_Init_AddressFirst(h, fails, vcr) ==
  LET h1 == [h EXCEPT !.Instance = "QUADSPI"]
      d  == HAL_QSPI_DeInit(<<>>, fails)
  IN  IF ~d.ok THEN ResH(d.t, QSPI_ERROR, h1)
      ELSE
        LET m  == QSPI_MspInit(d.t)
            h2 == [h1 EXCEPT !.Init = HandleInit]
            i  == HAL_QSPI_Init(m.t, fails)
        IN  IF ~i.ok THEN ResH(i.t, QSPI_ERROR, h2)
            ELSE
              LET e == QSPI_EnterFourBytesAddress(i.t, fails)
              IN  IF e.ret # QSPI_OK THEN ResH(e.t, QSPI_NOT_SUPPORTED, h2)
                  ELSE
                    LET r == QSPI_ResetMemory(e.t, fails)
                    IN  IF r.ret # QSPI_OK THEN ResH(r.t, QSPI_NOT_SUPPORTED, h2)
                        ELSE
                          LET c == QSPI_DummyCyclesCfg(r.t, fails, vcr)
                          IN  IF c.ret # QSPI_OK
                              THEN ResH(c.t, QSPI_NOT_SUPPORTED, h2)
                              ELSE ResH(c.t, QSPI_OK, h2)

BSP_QSPI_Init(h, fails, vcr) ==
  LET h1 == [h EXCEPT !.Instance = "QUADSPI"]
      d  == HAL_QSPI_DeInit(<<>>, fails)
  IN  IF ~d.ok THEN ResH(d.t, QSPI_ERROR, h1)
      ELSE
        LET m  == QSPI_MspInit(d.t)
            h2 == [h1 EXCEPT !.Init = HandleInit]
            i  == HAL_QSPI_Init(m.t, fails)
        IN  IF ~i.ok THEN ResH(i.t, QSPI_ERROR, h2)
            ELSE
              LET r == QSPI_ResetMemory(i.t, fails)
              IN  IF r.ret # QSPI_OK THEN ResH(r.t, QSPI_NOT_SUPPORTED, h2)
                  ELSE
                    LET e == QSPI_EnterFourBytesAddress(r.t, fails)
                    IN  IF e.ret # QSPI_OK THEN ResH(e.t, QSPI_NOT_SUPPORTED, h2)
                        ELSE
                          LET c == QSPI_DummyCyclesCfg(e.t, fails, vcr)
                          IN  IF c.ret # QSPI_OK
                              THEN ResH(c.t, QSPI_NOT_SUPPORTED, h2)
                              ELSE ResH(c.t, QSPI_OK, h2)

BSP_QSPI_DeInit(h, fails) ==
  LET h1 == [h EXCEPT !.Instance = "QUADSPI"]
      d  == HAL_QSPI_DeInit(<<>>, fails)
  IN  IF ~d.ok THEN ResH(d.t, QSPI_ERROR, h1)
      ELSE ResH(QSPI_MspDeInit(d.t).t, QSPI_OK, h1)

BSP_QSPI_Read(fails, ReadAddr, Size) ==
  LET c == HAL_QSPI_Command(<<>>, fails,
             Frame("QUAD_INOUT_FAST_READ_CMD", "QSPI_ADDRESS_4_LINES", ReadAddr,
                   "QSPI_DATA_4_LINES", N25Q256A_DUMMY_CYCLES_READ_QUAD, Size),
             HAL_QPSI_TIMEOUT_DEFAULT_VALUE)
  IN  IF ~c.ok THEN Res(c.t, QSPI_ERROR)
      ELSE
        LET rx == HAL_QSPI_Receive(c.t, fails, "pData", -1,
                    HAL_QPSI_TIMEOUT_DEFAULT_VALUE)
        IN  IF ~rx.ok THEN Res(rx.t, QSPI_ERROR) ELSE Res(rx.t, QSPI_OK)

\* the loop of BSP_QSPI_Write with the wait for the end of programming put
\* before the program command instead of after the data
RECURSIVE WritePages_PollFirst(_, _, _, _, _, _)
WritePages_PollFirst(t, fails, current_addr, current_size, end_addr, pData) ==
  LET we == QSPI_WriteEnable(t, fails)
  IN  IF we.ret # QSPI_OK THEN Res(we.t, QSPI_ERROR)
      ELSE
        LET r == QSPI_AutoPollingMemReady(we.t, fails, HAL_QPSI_TIMEOUT_DEFAULT_VALUE)
        IN  IF r.ret # QSPI_OK THEN Res(r.t, QSPI_ERROR)
            ELSE
              LET c == HAL_QSPI_Command(r.t, fails,
                         Frame("EXT_QUAD_IN_FAST_PROG_CMD", "QSPI_ADDRESS_4_LINES",
                               current_addr, "QSPI_DATA_4_LINES", 0, current_size),
                         HAL_QPSI_TIMEOUT_DEFAULT_VALUE)
              IN  IF ~c.ok THEN Res(c.t, QSPI_ERROR)
                  ELSE
                    LET tx == HAL_QSPI_Transmit(c.t, fails, "pData", pData, -1,
                                HAL_QPSI_TIMEOUT_DEFAULT_VALUE)
                    IN  IF ~tx.ok THEN Res(tx.t, QSPI_ERROR)
                        ELSE
                          LET addr == U32Add(current_addr, current_size)
                              data == U32Add(pData, current_size)
                              size ==
                                IF U32Gt(U32Add(addr, ToU32(N25Q256A_PAGE_SIZE)), end_addr)
                                THEN U32Sub(end_addr, addr)
                                ELSE ToU32(N25Q256A_PAGE_SIZE)
                          IN  IF U32Lt(addr, end_addr)
                              THEN WritePages_PollFirst(tx.t, fails, addr, size,
                                                        end_addr, data)
                              ELSE Res(tx.t, QSPI_OK)

\* the do ... while loop of BSP_QSPI_Write, entered with the values the
\* variables hold at the top of the body; pData is kept as its offset from
\* the buffer the caller passed
RECURSIVE WritePages(_, _, _, _, _, _)
WritePages(t, fails, current_addr, current_size, end_addr, pData) ==
  LET we == QSPI_WriteEnable(t, fails)
  IN  IF we.ret # QSPI_OK THEN Res(we.t, QSPI_ERROR)
      ELSE
        LET c == HAL_QSPI_Command(we.t, fails,
                   Frame("EXT_QUAD_IN_FAST_PROG_CMD", "QSPI_ADDRESS_4_LINES",
                         current_addr, "QSPI_DATA_4_LINES", 0, current_size),
                   HAL_QPSI_TIMEOUT_DEFAULT_VALUE)
        IN  IF ~c.ok THEN Res(c.t, QSPI_ERROR)
            ELSE
              LET tx == HAL_QSPI_Transmit(c.t, fails, "pData", pData, -1,
                          HAL_QPSI_TIMEOUT_DEFAULT_VALUE)
              IN  IF ~tx.ok THEN Res(tx.t, QSPI_ERROR)
                  ELSE
                    LET r == QSPI_AutoPollingMemReady(tx.t, fails,
                               HAL_QPSI_TIMEOUT_DEFAULT_VALUE)
                    IN  IF r.ret # QSPI_OK THEN Res(r.t, QSPI_ERROR)
                        ELSE
                          LET addr == U32Add(current_addr, current_size)
                              data == U32Add(pData, current_size)
                              size ==
                                IF U32Gt(U32Add(addr, ToU32(N25Q256A_PAGE_SIZE)), end_addr)
                                THEN U32Sub(end_addr, addr)
                                ELSE ToU32(N25Q256A_PAGE_SIZE)
                          IN  IF U32Lt(addr, end_addr)
                              THEN WritePages(r.t, fails, addr, size, end_addr, data)
                              ELSE Res(r.t, QSPI_OK)

\* BSP_QSPI_Write without the clipping of the first chunk to the end of its
\* page (qspi.c:240: the offset of WriteAddr in its page is forgotten)
BSP_QSPI_Write_NoClip(fails, WriteAddr, Size) ==
  LET toend == ToU32(N25Q256A_PAGE_SIZE)
      current_size == IF U32Gt(toend, Size) THEN Size ELSE toend
  IN  WritePages(<<>>, fails, WriteAddr, current_size, U32Add(WriteAddr, Size),
                 ToU32(0))

BSP_QSPI_Write(fails, WriteAddr, Size) ==
  LET toend == ToU32(N25Q256A_PAGE_SIZE - U32Mod(WriteAddr, N25Q256A_PAGE_SIZE))
      current_size == IF U32Gt(toend, Size) THEN Size ELSE toend
      current_addr == WriteAddr
      end_addr == U32Add(WriteAddr, Size)
  IN  WritePages(<<>>, fails, current_addr, current_size, end_addr, ToU32(0))

BSP_QSPI_Erase_Block(fails, BlockAddress) ==
  LET we == QSPI_WriteEnable(<<>>, fails)
  IN  IF we.ret # QSPI_OK THEN Res(we.t, QSPI_ERROR)
      ELSE
        LET c == HAL_QSPI_Command(we.t, fails,
                   Frame("SUBSECTOR_ERASE_CMD", "QSPI_ADDRESS_1_LINE", BlockAddress,
                         "QSPI_DATA_NONE", 0, U32None),
                   HAL_QPSI_TIMEOUT_DEFAULT_VALUE)
        IN  IF ~c.ok THEN Res(c.t, QSPI_ERROR)
            ELSE
              LET r == QSPI_AutoPollingMemReady(c.t, fails,
                         N25Q256A_SUBSECTOR_ERASE_MAX_TIME)
              IN  IF r.ret # QSPI_OK THEN Res(r.t, QSPI_ERROR)
                  ELSE Res(r.t, QSPI_OK)

\* BSP_QSPI_Erase_Chip waiting no longer than for a subsector erase
BSP_QSPI_Erase_Chip_ShortWait(fails) ==
  LET we == QSPI_WriteEnable(<<>>, fails)
  IN  IF we.ret # QSPI_OK THEN Res(we.t, QSPI_ERROR)
      ELSE
        LET c == HAL_QSPI_Command(we.t, fails,
                   Frame("BULK_ERASE_CMD", "QSPI_ADDRESS_NONE", U32None,
                         "QSPI_DATA_NONE", 0, U32None),
                   HAL_QPSI_TIMEOUT_DEFAULT_VALUE)
        IN  IF ~c.ok THEN Res(c.t, QSPI_ERROR)
            ELSE
              LET r == QSPI_AutoPollingMemReady(c.t, fails,
                         N25Q256A_SUBSECTOR_ERASE_MAX_TIME)
              IN  IF r.ret # QSPI_OK THEN Res(r.t, QSPI_ERROR)
                  ELSE Res(r.t, QSPI_OK)

BSP_QSPI_Erase_Chip(fails) ==
  LET we == QSPI_WriteEnable(<<>>, fails)
  IN  IF we.ret # QSPI_OK THEN Res(we.t, QSPI_ERROR)
      ELSE
        LET c == HAL_QSPI_Command(we.t, fails,
                   Frame("BULK_ERASE_CMD", "QSPI_ADDRESS_NONE", U32None,
                         "QSPI_DATA_NONE", 0, U32None),
                   HAL_QPSI_TIMEOUT_DEFAULT_VALUE)
        IN  IF ~c.ok THEN Res(c.t, QSPI_ERROR)
            ELSE
              LET r == QSPI_AutoPollingMemReady(c.t, fails,
                         N25Q256A_BULK_ERASE_MAX_TIME)
              IN  IF r.ret # QSPI_OK THEN Res(r.t, QSPI_ERROR)
                  ELSE Res(r.t, QSPI_OK)

\* the classification with the ready bit tested first
FlagStatus_ReadyFirst(reg) ==
  IF BitAnd(reg, N25Q256A_FSR_READY) # 0
  THEN QSPI_OK
  ELSE IF BitAnd(reg, BitOr(BitOr(N25Q256A_FSR_PRERR, N25Q256A_FSR_VPPERR),
                            BitOr(N25Q256A_FSR_PGERR, N25Q256A_FSR_ERERR))) # 0
  THEN QSPI_ERROR
  ELSE IF BitAnd(reg, BitOr(N25Q256A_FSR_PGSUS, N25Q256A_FSR_ERSUS)) # 0
  THEN QSPI_SUSPENDED
  ELSE QSPI_BUSY

\* the classification of the flag status register value (qspi.c:419-435)
FlagStatus(reg) ==
  IF BitAnd(reg, BitOr(BitOr(N25Q256A_FSR_PRERR, N25Q256A_FSR_VPPERR),
                       BitOr(N25Q256A_FSR_PGERR, N25Q256A_FSR_ERERR))) # 0
  THEN QSPI_ERROR
  ELSE IF BitAnd(reg, BitOr(N25Q256A_FSR_PGSUS, N25Q256A_FSR_ERSUS)) # 0
  THEN QSPI_SUSPENDED
  ELSE IF BitAnd(reg, N25Q256A_FSR_READY) # 0
  THEN QSPI_OK
  ELSE QSPI_BUSY

\* fsr: the value the memory answers to READ_FLAG_STATUS_REG_CMD
BSP_QSPI_GetStatus(fails, fsr) ==
  LET c == HAL_QSPI_Command(<<>>, fails,
             Frame("READ_FLAG_STATUS_REG_CMD", "QSPI_ADDRESS_NONE", U32None,
                   "QSPI_DATA_1_LINE", 0, ToU32(1)),
             HAL_QPSI_TIMEOUT_DEFAULT_VALUE)
  IN  IF ~c.ok THEN Res(c.t, QSPI_ERROR)
      ELSE
        LET rx == HAL_QSPI_Receive(c.t, fails, "reg", fsr,
                    HAL_QPSI_TIMEOUT_DEFAULT_VALUE)
        IN  IF ~rx.ok THEN Res(rx.t, QSPI_ERROR)
            ELSE Res(rx.t, FlagStatus(fsr))

\* the structure with the number of pages taken from the number of sectors
BSP_QSPI_GetInfo_SectorPages ==
  [FlashSize          |-> N25Q256A_FLASH_SIZE,
   EraseSectorSize    |-> N25Q256A_SUBSECTOR_SIZE,
   EraseSectorsNumber |-> N25Q256A_FLASH_SIZE \div N25Q256A_SUBSECTOR_SIZE,
   ProgPageSize       |-> N25Q256A_PAGE_SIZE,
   ProgPagesNumber    |-> N25Q256A_FLASH_SIZE \div N25Q256A_SUBSECTOR_SIZE]

\* the structure BSP_QSPI_GetInfo fills
BSP_QSPI_GetInfo ==
  [FlashSize          |-> N25Q256A_FLASH_SIZE,
   EraseSectorSize    |-> N25Q256A_SUBSECTOR_SIZE,
   EraseSectorsNumber |-> N25Q256A_FLASH_SIZE \div N25Q256A_SUBSECTOR_SIZE,
   ProgPageSize       |-> N25Q256A_PAGE_SIZE,
   ProgPagesNumber    |-> N25Q256A_FLASH_SIZE \div N25Q256A_PAGE_SIZE]

BSP_QSPI_EnableMemoryMappedMode(fails) ==
  LET m == HAL_QSPI_MemoryMapped(<<>>, fails,
             Frame("QUAD_INOUT_FAST_READ_CMD", "QSPI_ADDRESS_4_LINES", U32None,
                   "QSPI_DATA_4_LINES", N25Q256A_DUMMY_CYCLES_READ_QUAD, U32None))
  IN  IF ~m.ok THEN Res(m.t, QSPI_ERROR) ELSE Res(m.t, QSPI_OK)

-----------------------------------------------------------------------------
(* The LCD driver.  A call to the component driver (lcd_drv->...) is one    *)
(* entry of the trace: the entry's name and the arguments in call order.    *)

\* conversions to the C types of the parameters and locals
ToUint16(v) == v % 2^16
ToInt16(v) == LET u == v % 2^16 IN IF u >= 2^15 THEN u - 2^16 ELSE u
\* the macro ABS(X)  ((X) > 0 ? (X) : -(X)), on int
ABS(X) == IF X > 0 THEN X ELSE -X
\* C's integer division, which truncates toward zero
CDiv(a, b) == IF a >= 0 THEN a \div b ELSE -((-a) \div b)

\* the fonts of Utilities/Fonts
Fonts == {"Font24", "Font20", "Font16", "Font12", "Font8"}
LCD_DEFAULT_FONT == "Font24"
\* their Width and Height (sFONT)
sFONT ==
  [Font24 |-> [Width |-> 17, Height |-> 24],
   Font20 |-> [Width |-> 14, Height |-> 20],
   Font16 |-> [Width |-> 11, Height |-> 16],
   Font12 |-> [Width |-> 7,  Height |-> 12],
   Font8  |-> [Width |-> 5,  Height |-> 8]]
\* #define LINE(x) ((x) * (((sFONT *)BSP_LCD_GetFont())->Height))
LINE(prop, x) == x * sFONT[prop.pFont].Height

\* lcd.c:91-93
MAX_HEIGHT_FONT == 17
MAX_WIDTH_FONT == 24
OFFSET_BITMAP == 54
\* lcd.c:115  the 16-bit header fields of bitmap[] that LCD_DrawChar writes:
\* file size (offsets 2, 4), data offset (10), width (18, 20), height (22, 24)
\* and what its pixel cells hold: nothing, or, draw by draw from the latest
\* one, the indices a draw wrote and no later draw has, with the glyph and
\* the two colours of that draw
BitmapZero ==
  [bfSize_lo |-> 0, bfSize_hi |-> 0, bfOffBits |-> 0,
   biWidth_lo |-> 0, biWidth_hi |-> 0, biHeight_lo |-> 0, biHeight_hi |-> 0,
   pixels |-> <<>>]

LcdCall(fn, args) == [fn |-> fn, args |-> args]

\* the entries of a component driver table
AllFns == {"WritePixel", "ReadPixel", "SetDisplayWindow", "DrawHLine",
           "DrawVLine", "DrawBitmap", "DisplayOn", "DisplayOff"}
LCD_OK == "LCD_OK"
LCD_ERROR == "LCD_ERROR"
\* lcd_drv before BSP_LCD_Init: a null pointer
NoDriver == [name |-> "NULL", fns |-> {}, XSize |-> 0, YSize |-> 0]
\* the component driver table of that name, whose entries in absent are NULL
Driver(name, absent) ==
  [name |-> name, fns |-> AllFns \ absent, XSize |-> LcdWidth, YSize |-> LcdHeight]

\* lcd.c:233
BSP_LCD_SetFont(prop, pFonts) == [prop EXCEPT !.pFont = pFonts]
\* lcd.c:213
BSP_LCD_SetTextColor(prop, Color) == [prop EXCEPT !.TextColor = ToUint16(Color)]
\* lcd.c:223
BSP_LCD_SetBackColor(prop, Color) == [prop EXCEPT !.BackColor = ToUint16(Color)]

\* lcd.c:139  BSP_LCD_Init; id is what spfd5408_drv.ReadID() returns, absent
\* the NULL entries of the driver tables
BSP_LCD_Init(id, absent) ==
  LET prop0 == [BackColor |-> 65535, pFont |-> "Font24", TextColor |-> 0]
      t1    == <<LcdCall("spfd5408_drv.ReadID", <<>>)>>
      drv   == IF id = "SPFD5408_ID"
               THEN Driver("spfd5408_drv", absent)
               ELSE Driver("hx8347d_drv", absent)
      r     == LCD_OK
  IN  IF r # LCD_ERROR
      THEN [t |-> Append(t1, LcdCall("Init", <<>>)), ret |-> r, drv |-> drv,
            prop |-> BSP_LCD_SetFont(prop0, LCD_DEFAULT_FONT)]
      ELSE [t |-> t1, ret |-> r, drv |-> drv, prop |-> prop0]

\* lcd.c:825  LCD_DrawPixel(uint16_t Xpos, uint16_t Ypos, uint16_t RGBCode)
LCD_DrawPixel(t, drv, Xpos, Ypos, RGBCode) ==
  IF "WritePixel" \in drv.fns
  THEN Append(t, LcdCall("WritePixel",
                         <<ToUint16(Xpos), ToUint16(Ypos), ToUint16(RGBCode)>>))
  ELSE t

\* lcd.c:910  LCD_SetDisplayWindow
LCD_SetDisplayWindow(t, drv, Xpos, Ypos, Width, Height) ==
  IF "SetDisplayWindow" \in drv.fns
  THEN Append(t, LcdCall("SetDisplayWindow",
                         <<ToUint16(Xpos), ToUint16(Ypos),
                           ToUint16(Width), ToUint16(Height)>>))
  ELSE t

BSP_LCD_GetXSize(drv) == drv.XSize
BSP_LCD_GetYSize(drv) == drv.YSize

\* the window that is the whole screen, as the driver sets it
\* (LCD_SetDisplayWindow(0, 0, BSP_LCD_GetXSize(), BSP_LCD_GetYSize()))
FullWindow(drv) == <<0, 0, BSP_LCD_GetXSize(drv), BSP_LCD_GetYSize(drv)>>
\* the window of the controller after the calls of t, when it was w before
WindowAfter(w, t) ==
  LET sets == {i \in 1..Len(t) : t[i].fn = "SetDisplayWindow"}
  IN  IF sets = {} THEN w
      ELSE t[CHOOSE i \in sets : \A j \in sets : j <= i].args

\* lcd.c:385  BSP_LCD_ReadPixel; pixel is what the component driver returns
BSP_LCD_ReadPixel(t, drv, Xpos, Ypos, pixel) ==
  IF "ReadPixel" \in drv.fns
  THEN [t |-> Append(t, LcdCall("ReadPixel", <<ToUint16(Xpos), ToUint16(Ypos)>>)),
        ret |-> pixel]
  ELSE [t |-> t, ret |-> 0]

\* lcd.c:793, lcd.c:802  BSP_LCD_DisplayOn and BSP_LCD_DisplayOff call the
\* entry of the driver table without a test
BSP_LCD_DisplayOn(t, drv) == Append(t, LcdCall("DisplayOn", <<>>))
BSP_LCD_DisplayOff(t, drv) == Append(t, LcdCall("DisplayOff", <<>>))
\* where the caller is after a call through the entry fn of the table: a call
\* through a NULL entry is undefined, it may come back or end in a fault
CallOutcomes(drv, fn) ==
  IF fn \in drv.fns THEN {"returned"} ELSE {"returned", "fault"}

\* the fallback loops of BSP_LCD_DrawHLine and BSP_LCD_DrawVLine, from index
RECURSIVE HLinePixels(_, _, _, _, _, _, _)
HLinePixels(t, drv, prop, Xpos, Ypos, Length, index) ==
  IF index < Length
  THEN HLinePixels(LCD_DrawPixel(t, drv, Ypos + index, Xpos, prop.TextColor),
                   drv, prop, Xpos, Ypos, Length, index + 1)
  ELSE t
RECURSIVE VLinePixels(_, _, _, _, _, _, _)
VLinePixels(t, drv, prop, Xpos, Ypos, Length, index) ==
  IF index < Length
  THEN VLinePixels(LCD_DrawPixel(t, drv, Ypos, Xpos + index, prop.TextColor),
                   drv, prop, Xpos, Ypos, Length, index + 1)
  ELSE t

\* the parameters are uint16_t: the caller's values are converted on entry
BSP_LCD_DrawHLine(t, drv, prop, Xpos0, Ypos0, Length0) ==
  LET Xpos == ToUint16(Xpos0)
      Ypos == ToUint16(Ypos0)
      Length == ToUint16(Length0)
  IN  IF "DrawHLine" \in drv.fns
      THEN Append(t, LcdCall("DrawHLine",
                             <<ToUint16(prop.TextColor), Ypos, Xpos, Length>>))
      ELSE HLinePixels(t, drv, prop, Xpos, Ypos, Length, 0)

BSP_LCD_DrawVLine(t, drv, prop, Xpos0, Ypos0, Length0) ==
  LET Xpos == ToUint16(Xpos0)
      Ypos == ToUint16(Ypos0)
      Length == ToUint16(Length0)
  IN  IF "DrawVLine" \in drv.fns
      THEN LET t1 == LCD_SetDisplayWindow(t, drv, Ypos, Xpos, 1, Length)
               t2 == Append(t1, LcdCall("DrawVLine",
                              <<ToUint16(prop.TextColor), Ypos, Xpos, Length>>))
           IN  LCD_SetDisplayWindow(t2, drv, 0, 0,
                                    BSP_LCD_GetXSize(drv), BSP_LCD_GetYSize(drv))
      ELSE VLinePixels(t, drv, prop, Xpos, Ypos, Length, 0)

\* a loop that stops one pixel early (curpixel < numpixels)
RECURSIVE LinePixels_Exclusive(_, _, _, _)
LinePixels_Exclusive(t, drv, prop, s) ==
  IF s.curpixel < s.numpixels
  THEN LET t1   == LCD_DrawPixel(t, drv, s.x, s.y, prop.TextColor)
           num1 == ToInt16(s.num + s.numadd)
           hit  == num1 >= s.den
           num2 == IF hit THEN ToInt16(num1 - s.den) ELSE num1
           x1   == IF hit THEN ToInt16(s.x + s.xinc1) ELSE s.x
           y1   == IF hit THEN ToInt16(s.y + s.yinc1) ELSE s.y
       IN  LinePixels_Exclusive(t1, drv, prop,
                      [s EXCEPT !.num = num2,
                                !.x = ToInt16(x1 + s.xinc2),
                                !.y = ToInt16(y1 + s.yinc2),
                                !.curpixel = ToInt16(s.curpixel + 1)])
  ELSE t

\* the for loop of BSP_LCD_DrawLine (lcd.c:507-519); s holds the int16_t locals
RECURSIVE LinePixels(_, _, _, _)
LinePixels(t, drv, prop, s) ==
  IF s.curpixel <= s.numpixels
  THEN LET t1   == LCD_DrawPixel(t, drv, s.x, s.y, prop.TextColor)
           num1 == ToInt16(s.num + s.numadd)
           hit  == num1 >= s.den
           num2 == IF hit THEN ToInt16(num1 - s.den) ELSE num1
           x1   == IF hit THEN ToInt16(s.x + s.xinc1) ELSE s.x
           y1   == IF hit THEN ToInt16(s.y + s.yinc1) ELSE s.y
       IN  LinePixels(t1, drv, prop,
                      [s EXCEPT !.num = num2,
                                !.x = ToInt16(x1 + s.xinc2),
                                !.y = ToInt16(y1 + s.yinc2),
                                !.curpixel = ToInt16(s.curpixel + 1)])
  ELSE t

\* the locals of BSP_LCD_DrawLine as the loop finds them (lcd.c:461-505)
LineSetup(X1, Y1, X2, Y2) ==
  LET deltax == ToInt16(ABS(Y2 - Y1))
      deltay == ToInt16(ABS(X2 - X1))
      xdir   == IF Y2 >= Y1 THEN 1 ELSE -1
      ydir   == IF X2 >= X1 THEN 1 ELSE -1
  IN  IF deltax >= deltay
      THEN [x |-> ToInt16(Y1), y |-> ToInt16(X1),
            xinc1 |-> 0, xinc2 |-> xdir, yinc1 |-> ydir, yinc2 |-> 0,
            den |-> deltax, num |-> ToInt16(CDiv(deltax, 2)),
            numadd |-> deltay, numpixels |-> deltax, curpixel |-> 0]
      ELSE [x |-> ToInt16(Y1), y |-> ToInt16(X1),
            xinc1 |-> xdir, xinc2 |-> 0, yinc1 |-> 0, yinc2 |-> ydir,
            den |-> deltay, num |-> ToInt16(CDiv(deltay, 2)),
            numadd |-> deltax, numpixels |-> deltay, curpixel |-> 0]

\* the loop ends: curpixel, an int16_t, can exceed numpixels
LineTerminates(X1, Y1, X2, Y2) ==
  LineSetup(ToUint16(X1), ToUint16(Y1), ToUint16(X2), ToUint16(Y2)).numpixels < 2^15 - 1

BSP_LCD_DrawLine(t, drv, prop, X1, Y1, X2, Y2) ==
  LinePixels(t, drv, prop,
             LineSetup(ToUint16(X1), ToUint16(Y1), ToUint16(X2), ToUint16(Y2)))

\* a loop whose third pixel has the wrong sign (Xpos + curx for Xpos - curx)
RECURSIVE CirclePixels_SignError(_, _, _, _, _, _, _, _)
CirclePixels_SignError(t, drv, prop, Xpos, Ypos, decision, curx, cury) ==
  IF U32Le(curx, cury)
  THEN LET c  == prop.TextColor
           t1 == LCD_DrawPixel(t,  drv, Ypos + curx.lo, Xpos - cury.lo, c)
           t2 == LCD_DrawPixel(t1, drv, Ypos - curx.lo, Xpos - cury.lo, c)
           t3 == LCD_DrawPixel(t2, drv, Ypos + cury.lo, Xpos + curx.lo, c)
           t4 == LCD_DrawPixel(t3, drv, Ypos - cury.lo, Xpos - curx.lo, c)
           t5 == LCD_DrawPixel(t4, drv, Ypos + curx.lo, Xpos + cury.lo, c)
           t6 == LCD_DrawPixel(t5, drv, Ypos - curx.lo, Xpos + cury.lo, c)
           t7 == LCD_DrawPixel(t6, drv, Ypos + cury.lo, Xpos + curx.lo, c)
           t8 == LCD_DrawPixel(t7, drv, Ypos - cury.lo, Xpos + curx.lo, c)
           prop1 == BSP_LCD_SetFont(prop, LCD_DEFAULT_FONT)
           decision1 ==
             IF I32Neg(decision)
             THEN U32Add(decision, U32Add(U32Shl2(curx), ToU32(6)))
             ELSE U32Add(decision,
                         U32Add(U32Shl2(U32Sub(curx, cury)), ToU32(10)))
           cury1 == IF I32Neg(decision) THEN cury ELSE U32Sub(cury, ToU32(1))
       IN  CirclePixels_SignError(t8, drv, prop1, Xpos, Ypos, decision1,
                                  U32Add(curx, ToU32(1)), cury1)
  ELSE [t |-> t, prop |-> prop]

\* the while loop of BSP_LCD_DrawCircle (lcd.c:558-589): decision is an
\* int32_t kept as its bits, curx and cury are uint32_t; the result is the
\* trace and DrawProp, whose font the loop body sets
RECURSIVE CirclePixels(_, _, _, _, _, _, _, _)
CirclePixels(t, drv, prop, Xpos, Ypos, decision, curx, cury) ==
  IF U32Le(curx, cury)
  THEN LET c  == prop.TextColor
           t1 == LCD_DrawPixel(t,  drv, Ypos + curx.lo, Xpos - cury.lo, c)
           t2 == LCD_DrawPixel(t1, drv, Ypos - curx.lo, Xpos - cury.lo, c)
           t3 == LCD_DrawPixel(t2, drv, Ypos + cury.lo, Xpos - curx.lo, c)
           t4 == LCD_DrawPixel(t3, drv, Ypos - cury.lo, Xpos - curx.lo, c)
           t5 == LCD_DrawPixel(t4, drv, Ypos + curx.lo, Xpos + cury.lo, c)
           t6 == LCD_DrawPixel(t5, drv, Ypos - curx.lo, Xpos + cury.lo, c)
           t7 == LCD_DrawPixel(t6, drv, Ypos + cury.lo, Xpos + curx.lo, c)
           t8 == LCD_DrawPixel(t7, drv, Ypos - cury.lo, Xpos + curx.lo, c)
           prop1 == BSP_LCD_SetFont(prop, LCD_DEFAULT_FONT)
           decision1 ==
             IF I32Neg(decision)
             THEN U32Add(decision, U32Add(U32Shl2(curx), ToU32(6)))
             ELSE U32Add(decision,
                         U32Add(U32Shl2(U32Sub(curx, cury)), ToU32(10)))
           cury1 == IF I32Neg(decision) THEN cury ELSE U32Sub(cury, ToU32(1))
       IN  CirclePixels(t8, drv, prop1, Xpos, Ypos, decision1,
                        U32Add(curx, ToU32(1)), cury1)
  ELSE [t |-> t, prop |-> prop]

BSP_LCD_DrawCircle(t, drv, prop, Xpos0, Ypos0, Radius0) ==
  LET Xpos == ToUint16(Xpos0)
      Ypos == ToUint16(Ypos0)
      Radius == ToUint16(Radius0)
  IN  CirclePixels(t, drv, prop, Xpos, Ypos,
                   IntToU32(3 - Radius * 2), ToU32(0), ToU32(Radius))

\* the loop variables after one pass of the stepping loop of
\* BSP_LCD_DrawCircle and BSP_LCD_FillCircle (lcd.c:578-588, 739-748): cury,
\* a uint32_t, is decremented whatever its value
CircleStep(v) ==
  [decision |->
     IF I32Neg(v.decision)
     THEN U32Add(v.decision, U32Add(U32Shl2(v.curx), ToU32(6)))
     ELSE U32Add(v.decision,
                 U32Add(U32Shl2(U32Sub(v.curx, v.cury)), ToU32(10))),
   curx |-> U32Add(v.curx, ToU32(1)),
   cury |-> IF I32Neg(v.decision) THEN v.cury ELSE U32Sub(v.cury, ToU32(1))]

\* the loop variables at the start of each pass of the stepping loop, for
\* the first n passes at most
RECURSIVE CircleLoop(_, _)
CircleLoop(v, n) ==
  IF n > 0 /\ U32Le(v.curx, v.cury)
  THEN <<v>> \o CircleLoop(CircleStep(v), n - 1)
  ELSE <<>>

\* the loop variables with which both functions enter the loop
\* (lcd.c:554-556, 719-722)
CircleStart(Radius) ==
  [decision |-> IntToU32(3 - Radius * 2), curx |-> ToU32(0), cury |-> ToU32(Radius)]

\* the number of the first pass, among the first n, that decrements cury
\* when it is 0; 0 if there is none
CircleWrap(Radius, n) ==
  LET st == CircleLoop(CircleStart(Radius), n)
      ws == {i \in 1..Len(st) : ~I32Neg(st[i].decision) /\ st[i].cury = ToU32(0)}
  IN  IF ws = {} THEN 0 ELSE CHOOSE i \in ws : \A j \in ws : i <= j

\* the while loop of BSP_LCD_FillCircle (lcd.c:725-749): the calls of the
\* vertical chords, pass by pass
RECURSIVE FillCircleChords(_, _, _, _, _, _, _)
FillCircleChords(drv, prop, Xpos, Ypos, decision, curx, cury) ==
  IF U32Le(curx, cury)
  THEN LET c1 == IF U32Gt(cury, ToU32(0))
                 THEN BSP_LCD_DrawVLine(<<>>, drv, prop, Xpos + curx.lo,
                                        Ypos - cury.lo, 2 * cury.lo)
                      \o BSP_LCD_DrawVLine(<<>>, drv, prop, Xpos - curx.lo,
                                           Ypos - cury.lo, 2 * cury.lo)
                 ELSE <<>>
           c2 == IF U32Gt(curx, ToU32(0))
                 THEN BSP_LCD_DrawVLine(<<>>, drv, prop, Xpos - cury.lo,
                                        Ypos - curx.lo, 2 * curx.lo)
                      \o BSP_LCD_DrawVLine(<<>>, drv, prop, Xpos + cury.lo,
                                           Ypos - curx.lo, 2 * curx.lo)
                 ELSE <<>>
           decision1 ==
             IF I32Neg(decision)
             THEN U32Add(decision, U32Add(U32Shl2(curx), ToU32(6)))
             ELSE U32Add(decision,
                         U32Add(U32Shl2(U32Sub(curx, cury)), ToU32(10)))
           cury1 == IF I32Neg(decision) THEN cury ELSE U32Sub(cury, ToU32(1))
       IN  c1 \o c2 \o FillCircleChords(drv, prop, Xpos, Ypos, decision1,
                                        U32Add(curx, ToU32(1)), cury1)
  ELSE <<>>

\* a fill that leaves out the outline
BSP_LCD_FillCircle_NoOutline(t, drv, prop, Xpos0, Ypos0, Radius0) ==
  LET Xpos == ToUint16(Xpos0)
      Ypos == ToUint16(Ypos0)
      Radius == ToUint16(Radius0)
      prop1 == BSP_LCD_SetTextColor(prop, prop.TextColor)
  IN  [t |-> t \o FillCircleChords(drv, prop1, Xpos, Ypos,
                                   IntToU32(3 - Radius * 2), ToU32(0), ToU32(Radius)),
       prop |-> prop1]

\* lcd.c:713  BSP_LCD_FillCircle: the trace and DrawProp it leaves
BSP_LCD_FillCircle(t, drv, prop, Xpos0, Ypos0, Radius0) ==
  LET Xpos == ToUint16(Xpos0)
      Ypos == ToUint16(Ypos0)
      Radius == ToUint16(Radius0)
      prop1 == BSP_LCD_SetTextColor(prop, prop.TextColor)
      t1    == FillCircleChords(drv, prop1, Xpos, Ypos,
                                IntToU32(3 - Radius * 2), ToU32(0), ToU32(Radius))
      prop2 == BSP_LCD_SetTextColor(prop1, prop1.TextColor)
      c     == BSP_LCD_DrawCircle(<<>>, drv, prop2, Xpos, Ypos, Radius)
  IN  [t |-> t \o t1 \o c.t, prop |-> c.prop]

\* A positive single-precision float is m * 2^e with 2^23 <= m < 2^24.
\* FloatNorm(n, 0) is the float of an integer 0 < n < 2^24, which is exact:
\* rad1 = YRadius, rad2 = XRadius (lcd.c:632-633) and the x of x/k.
RECURSIVE FloatNorm(_, _)
FloatNorm(m, e) ==
  IF m >= 2^23 THEN [m |-> m, e |-> e] ELSE FloatNorm(m * 2, e - 1)

\* the quotient of two positive floats, rounded to the nearest float, to the
\* even one of two that are equally near: the division of rad2/rad1
\* (lcd.c:635) and of x/k (lcd.c:638).  The 24 bits of the quotient are
\* divided out a few at a time.
FloatDiv(a, b) ==
  LET n == IF a.m >= b.m THEN 23 ELSE 24
      Bits(qr, k) == [q |-> qr.q * 2^k + (qr.r * 2^k) \div b.m,
                      r |-> (qr.r * 2^k) % b.m]
      s0 == [q |-> a.m \div b.m, r |-> a.m % b.m]
      s3 == Bits(Bits(Bits(s0, 7), 7), 7)
      s4 == Bits(s3, n - 21)
      up == 2 * s4.r > b.m \/ (2 * s4.r = b.m /\ s4.q % 2 = 1)
      q  == IF up THEN s4.q + 1 ELSE s4.q
      e  == a.e - b.e - n
  IN  IF q = 2^24 THEN [m |-> 2^23, e |-> e + 1] ELSE [m |-> q, e |-> e]

\* (uint16_t)(x/k) of the ellipses, where k = (float)(rad2/rad1) with
\* rad1 = YRadius and rad2 = XRadius (lcd.c:630-635, 766-771), for radii
\* that are not negative and x >= 0.  With both radii positive k is the
\* rounded quotient of the two floats and x/k the rounded quotient of x and
\* k; the conversion drops the fraction and keeps the low 16 bits of the
\* integer, and a quotient of 2^31 or more is converted as infinity is.
\* With YRadius = 0, k is infinite and the quotient 0.  With XRadius = 0 the
\* quotient is not a number for x = 0 and infinite for x > 0, and with both
\* radii 0 it is never a number: the conversion of these to uint16_t is
\* undefined, und.nan and und.inf are what the build makes of it.
EllipseQuot(x, XRadius, YRadius, und) ==
  CASE XRadius > 0 /\ YRadius > 0 ->
         IF x = 0
         THEN 0
         ELSE LET k == FloatDiv(FloatNorm(XRadius, 0), FloatNorm(YRadius, 0))
                  f == FloatDiv(FloatNorm(x, 0), k)
              IN  CASE f.e < -23 -> 0
                    [] f.e \in -23..0 -> ToUint16(f.m \div 2^(0 - f.e))
                    [] f.e \in 1..7 -> ToUint16(f.m * 2^f.e)
                    [] OTHER -> und.inf
    [] XRadius > 0 /\ YRadius = 0 -> 0
    [] XRadius = 0 /\ YRadius > 0 -> IF x = 0 THEN und.nan ELSE und.inf
    [] OTHER                      -> und.nan

\* what an undefined conversion of a float to uint16_t gives: the low half
\* of the integer that the conversion instruction or routine leaves, which
\* is 0 for what is not a number, and 0 (0x80000000, the x86 instruction) or
\* 65535 (the saturating conversion of the ARM cores) for infinity
Undefined == [nan : {0}, inf : {0, 65535}]

\* the loop variables after one pass of the loop of BSP_LCD_DrawEllipse and
\* BSP_LCD_FillEllipse (lcd.c:643-648, 778-784)
EllipseStep(s) ==
  LET e2   == s.err
      inx  == e2 <= s.x
      x1   == IF inx THEN s.x + 1 ELSE s.x
      err1 == IF inx THEN s.err + x1 * 2 + 1 ELSE s.err
      e2b  == IF inx /\ (0 - s.y) = x1 /\ e2 <= s.y THEN 0 ELSE e2
      iny  == e2b > s.y
      y1   == IF iny THEN s.y + 1 ELSE s.y
  IN  [x |-> x1, y |-> y1, err |-> IF iny THEN err1 + y1 * 2 + 1 ELSE err1]

\* the loop variables with which both functions enter the loop
\* (lcd.c:629, 765)
EllipseStart(XRadius, YRadius) ==
  [x |-> 0, y |-> 0 - XRadius, err |-> 2 - 2 * YRadius]

\* the do-while loop of BSP_LCD_DrawEllipse (lcd.c:637-650), from the pass
\* with the loop variables s
RECURSIVE EllipsePixels(_, _, _, _, _, _, _, _, _)
EllipsePixels(t, drv, prop, Xpos, Ypos, XRadius, YRadius, und, s) ==
  LET q  == EllipseQuot(s.x, XRadius, YRadius, und)
      c  == prop.TextColor
      t1 == LCD_DrawPixel(t,  drv, Ypos - q, Xpos + s.y, c)
      t2 == LCD_DrawPixel(t1, drv, Ypos + q, Xpos + s.y, c)
      t3 == LCD_DrawPixel(t2, drv, Ypos + q, Xpos - s.y, c)
      t4 == LCD_DrawPixel(t3, drv, Ypos - q, Xpos - s.y, c)
      s1 == EllipseStep(s)
  IN  IF s1.y <= 0
      THEN EllipsePixels(t4, drv, prop, Xpos, Ypos, XRadius, YRadius, und, s1)
      ELSE t4

\* lcd.c:627  BSP_LCD_DrawEllipse
BSP_LCD_DrawEllipse(t, drv, prop, Xpos, Ypos, XRadius, YRadius, und) ==
  EllipsePixels(t, drv, prop, Xpos, Ypos, XRadius, YRadius, und,
                EllipseStart(XRadius, YRadius))

\* the do-while loop of BSP_LCD_FillEllipse (lcd.c:773-786), from the pass
\* with the loop variables s
RECURSIVE EllipseChords(_, _, _, _, _, _, _, _)
EllipseChords(drv, prop, Xpos, Ypos, XRadius, YRadius, und, s) ==
  LET q  == EllipseQuot(s.x, XRadius, YRadius, und)
      c1 == BSP_LCD_DrawVLine(<<>>, drv, prop, Xpos + s.y, Ypos - q, 2 * q + 1)
      c2 == BSP_LCD_DrawVLine(<<>>, drv, prop, Xpos - s.y, Ypos - q, 2 * q + 1)
      s1 == EllipseStep(s)
  IN  c1 \o c2 \o (IF s1.y <= 0
                   THEN EllipseChords(drv, prop, Xpos, Ypos, XRadius, YRadius, und, s1)
                   ELSE <<>>)

\* lcd.c:763  BSP_LCD_FillEllipse
BSP_LCD_FillEllipse(t, drv, prop, Xpos, Ypos, XRadius, YRadius, und) ==
  t \o EllipseChords(drv, prop, Xpos, Ypos, XRadius, YRadius, und,
                     EllipseStart(XRadius, YRadius))

\* lcd.c:530  BSP_LCD_DrawRect
BSP_LCD_DrawRect(t, drv, prop, Xpos0, Ypos0, Width0, Height0) ==
  LET Xpos   == ToUint16(Xpos0)
      Ypos   == ToUint16(Ypos0)
      Width  == ToUint16(Width0)
      Height == ToUint16(Height0)
      t1 == BSP_LCD_DrawHLine(t, drv, prop, Xpos, Ypos, Width)
      t2 == BSP_LCD_DrawHLine(t1, drv, prop, Xpos, Ypos + Height, Width)
      t3 == BSP_LCD_DrawVLine(t2, drv, prop, Xpos, Ypos, Height)
  IN  BSP_LCD_DrawVLine(t3, drv, prop, Xpos + Width, Ypos, Height)

\* the do-while loop of BSP_LCD_FillRect (lcd.c:699-703): the body runs, then
\* Height is tested and decremented
RECURSIVE FillRectLines(_, _, _, _, _, _)
FillRectLines(drv, prop, Xpos, Ypos, Width, Height) ==
  BSP_LCD_DrawHLine(<<>>, drv, prop, Xpos, Ypos, Width)
  \o (IF Height # 0
      THEN FillRectLines(drv, prop, Xpos, ToUint16(Ypos + 1), Width,
                         ToUint16(Height - 1))
      ELSE <<>>)

\* lcd.c:696  BSP_LCD_FillRect
BSP_LCD_FillRect(t, drv, prop, Xpos0, Ypos0, Width0, Height0) ==
  LET prop1 == BSP_LCD_SetTextColor(prop, prop.TextColor)
  IN  [t |-> t \o FillRectLines(drv, prop1, ToUint16(Xpos0), ToUint16(Ypos0),
                                ToUint16(Width0), ToUint16(Height0)),
       prop |-> prop1]

\* lcd.c:277  BSP_LCD_ClearStringLine
BSP_LCD_ClearStringLine(t, drv, prop, Line0) ==
  LET Line == ToUint16(Line0)
      colorbackup == prop.TextColor
      prop1 == [prop EXCEPT !.TextColor = prop.BackColor]
      r == BSP_LCD_FillRect(t, drv, prop1, 0, Line * sFONT[prop.pFont].Height,
                            BSP_LCD_GetXSize(drv), sFONT[prop.pFont].Height)
      prop2 == [r.prop EXCEPT !.TextColor = colorbackup]
  IN  [t |-> r.t, prop |-> BSP_LCD_SetTextColor(prop2, prop2.TextColor)]

\* the for loop of BSP_LCD_Clear (lcd.c:259-262), from counter
RECURSIVE ClearLines(_, _, _)
ClearLines(drv, prop, counter) ==
  IF counter < BSP_LCD_GetYSize(drv)
  THEN BSP_LCD_DrawHLine(<<>>, drv, prop, 0, counter, BSP_LCD_GetXSize(drv))
       \o ClearLines(drv, prop, counter + 1)
  ELSE <<>>

\* lcd.c:252  BSP_LCD_Clear
BSP_LCD_Clear(t, drv, prop, Color) ==
  LET color_backup == prop.TextColor
      prop1 == [prop EXCEPT !.TextColor = ToUint16(Color)]
      t1 == t \o ClearLines(drv, prop1, 0)
      prop2 == [prop1 EXCEPT !.TextColor = color_backup]
  IN  [t |-> t1, prop |-> BSP_LCD_SetTextColor(prop2, prop2.TextColor)]

\* the while loop of BSP_LCD_DrawPolygon (lcd.c:609-615): the lines from
\* vertex i on (pPoints is 1-based here), with PointCount still to count down
RECURSIVE PolygonLines(_, _, _, _, _)
PolygonLines(drv, prop, pPoints, i, PointCount) ==
  IF ToUint16(PointCount - 1) # 0
  THEN LET x == ToInt16(pPoints[i][1])
           y == ToInt16(pPoints[i][2])
       IN  BSP_LCD_DrawLine(<<>>, drv, prop, x, y, pPoints[i + 1][1], pPoints[i + 1][2])
           \o PolygonLines(drv, prop, pPoints, i + 1, ToUint16(PointCount - 1))
  ELSE <<>>

\* a polygon that is left open
BSP_LCD_DrawPolygon_Open(t, drv, prop, pPoints, PointCount) ==
  IF PointCount < 2 THEN t
  ELSE t \o PolygonLines(drv, prop, pPoints, 1, PointCount)

\* lcd.c:598  BSP_LCD_DrawPolygon
BSP_LCD_DrawPolygon(t, drv, prop, pPoints, PointCount) ==
  IF PointCount < 2 THEN t
  ELSE BSP_LCD_DrawLine(t, drv, prop, pPoints[1][1], pPoints[1][2],
                        pPoints[PointCount][1], pPoints[PointCount][2])
       \o PolygonLines(drv, prop, pPoints, 1, PointCount)

\* a * k modulo 2^32, for a small k
U32Mul(a, k) ==
  LET l == a.lo * k
  IN  U32((a.hi * k + (l \div Half)) % Half, l % Half)
\* a / 2
U32Half(a) == U32(a.hi \div 2, (a.lo \div 2) + (a.hi % 2) * (Half \div 2))

\* lcd.c:660  BSP_LCD_DrawBitmap; pBmp is the header of the picture
BSP_LCD_DrawBitmap(t, drv, Xpos0, Ypos0, pBmp) ==
  LET Xpos   == ToUint16(Xpos0)
      width  == U32(pBmp.biWidth_hi, pBmp.biWidth_lo)
      height == U32(pBmp.biHeight_hi, pBmp.biHeight_lo)
      Ypos   == IF drv.name = "hx8347d_drv"
                THEN ToUint16(BSP_LCD_GetYSize(drv) - ToUint16(Ypos0) - height.lo)
                ELSE ToUint16(Ypos0)
      t1 == LCD_SetDisplayWindow(t, drv, Ypos, Xpos, width.lo, height.lo)
      t2 == IF "DrawBitmap" \in drv.fns
            THEN Append(t1, LcdCall("DrawBitmap", <<Ypos, Xpos, pBmp>>))
            ELSE t1
  IN  LCD_SetDisplayWindow(t2, drv, 0, 0, BSP_LCD_GetXSize(drv), BSP_LCD_GetYSize(drv))

\* an index that leaves the inversion of the rows one row too high
CharIndex_RowAbove(width, height, counterh, counterw) ==
  ((height - counterh) * width + counterw) * 2 + OFFSET_BITMAP

\* lcd.c:885  the index of the low byte of the pixel (counterh, counterw);
\* the high byte is at index + 1
CharIndex(width, height, counterh, counterw) ==
  ((height - counterh - 1) * width + counterw) * 2 + OFFSET_BITMAP

\* the indices that the two loops of LCD_DrawChar (lcd.c:865-896) produce
CharIndices(width, height) ==
  {CharIndex(width, height, counterh, counterw) :
     counterh \in 0..(height - 1), counterw \in 0..(width - 1)}

\* lcd.c:840  LCD_DrawChar: what it leaves in bitmap[], which held bmp.  The
\* pixel at an index is the text colour or the background colour, as the
\* bit of the glyph at pChar says; the other indices keep what they held.
GlyphBitmap(bmp, prop, pChar) ==
  LET height == ToUint16(sFONT[prop.pFont].Height)
      width  == ToUint16(sFONT[prop.pFont].Width)
      size   == height * width * 2 + OFFSET_BITMAP
      at     == CharIndices(width, height)
      kept   == [i \in 1..Len(bmp.pixels) |->
                   [bmp.pixels[i] EXCEPT !.at = @ \ at]]
  IN  [bfSize_lo |-> ToUint16(size), bfSize_hi |-> ToUint16(size \div Half),
       bfOffBits |-> OFFSET_BITMAP,
       biWidth_lo |-> ToUint16(width), biWidth_hi |-> ToUint16(width \div Half),
       biHeight_lo |-> ToUint16(height), biHeight_hi |-> ToUint16(height \div Half),
       pixels |-> <<[at |-> at, pChar |-> pChar,
                     TextColor |-> prop.TextColor, BackColor |-> prop.BackColor]>>
                  \o SelectSeq(kept, LAMBDA l : l.at # {})]
\* the trace and the bitmap[] it leaves
LCD_DrawChar(t, drv, prop, bitmap0, Xpos, Ypos, pChar) ==
  LET bmp == GlyphBitmap(bitmap0, prop, pChar)
  IN  [t |-> BSP_LCD_DrawBitmap(t, drv, Ypos, Xpos, bmp), bmp |-> bmp]

\* lcd.c:297  BSP_LCD_DisplayChar; the glyph is named by its font and its
\* offset in the table of the font
BSP_LCD_DisplayChar(t, drv, prop, bmp, Xpos, Ypos, Ascii) ==
  LET f == sFONT[prop.pFont]
  IN  LCD_DrawChar(t, drv, prop, bmp, ToUint16(Ypos), ToUint16(Xpos),
                   [table |-> prop.pFont,
                    index |-> ((Ascii % 256) - 32) * f.Height * ((f.Width + 7) \div 8)])

\* the column of the first character (lcd.c:327-349)
RefColumn(drv, prop, Xpos, size, Mode) ==
  LET Width == sFONT[prop.pFont].Width
      ysize == ToU32(BSP_LCD_GetXSize(drv) \div Width)
      room  == U32Mul(U32Sub(ysize, ToU32(size)), Width)
  IN  CASE Mode = "CENTER_MODE" -> ToUint16(Xpos + U32Half(room).lo)
        [] Mode = "LEFT_MODE"   -> Xpos
        [] Mode = "RIGHT_MODE"  -> ToUint16(Xpos + room.lo)
        [] OTHER                -> Xpos
\* the while loop of BSP_LCD_DisplayStringAt (lcd.c:352-361), from counter
RECURSIVE DisplayChars(_, _, _, _, _, _, _)
DisplayChars(drv, prop, bmp, refcolumn, Ypos, pText, counter) ==
  LET Width == sFONT[prop.pFont].Width
  IN  IF /\ counter < Len(pText)
         /\ (BSP_LCD_GetXSize(drv) - counter * Width) % Half >= Width
      THEN LET c == BSP_LCD_DisplayChar(<<>>, drv, prop, bmp, refcolumn, Ypos,
                                        pText[counter + 1])
               r == DisplayChars(drv, prop, c.bmp, ToUint16(refcolumn + Width),
                                 Ypos, pText, ToUint16(counter + 1))
           IN  [t |-> c.t \o r.t, bmp |-> r.bmp]
      ELSE [t |-> <<>>, bmp |-> bmp]

\* lcd.c:315  BSP_LCD_DisplayStringAt; pText is the string without its
\* terminating zero
BSP_LCD_DisplayStringAt(t, drv, prop, bmp, Xpos, Ypos, pText, Mode) ==
  LET r == DisplayChars(drv, prop, bmp,
                        RefColumn(drv, prop, ToUint16(Xpos), Len(pText), Mode),
                        ToUint16(Ypos), pText, 0)
  IN  [t |-> t \o r.t, bmp |-> r.bmp]

\* lcd.c:374
BSP_LCD_DisplayStringAtLine(t, drv, prop, bmp, Line, pText) ==
  BSP_LCD_DisplayStringAt(t, drv, prop, bmp, 0, LINE(prop, ToUint16(Line)), pText,
                          "LEFT_MODE")

-----------------------------------------------------------------------------
(* The inputs of the calls.                                                 *)

Near(c) == {v \in (c - MaxOff)..(c + MaxOff) : v >= 0}
\* 2^32 - k
Top(k) == U32(Half - 1, Half - k)
\* addresses around 0, around the first page boundary, around the last page
\* boundary and just below 2^32
AddrLow  == {ToU32(n) : n \in Near(0) \cup Near(N25Q256A_PAGE_SIZE)}
AddrHigh == {Top(N25Q256A_PAGE_SIZE - d) : d \in (0 - MaxOff)..MaxOff}
              \cup {Top(k) : k \in 1..MaxOff}
\* sizes around the multiples of the page size, and just below 2^32
SizeLow  == {ToU32(n) : n \in UNION {Near(k * N25Q256A_PAGE_SIZE) : k \in 0..MaxPages}}
SizeHigh == {Top(k) : k \in 1..MaxOff}
\* The write starts below the last page and ends, without wrapping, inside
\* it: the loop of BSP_QSPI_Write then goes on through the whole address
\* space (2^24 pages), which the model does not follow.
LongWrite(a, n) ==
  LET lastpage == Top(N25Q256A_PAGE_SIZE)
      end == U32Add(a, n)
  IN  /\ U32Lt(a, lastpage)
      /\ U32Le(a, end)
      /\ U32Gt(end, lastpage)
\* (address, size): those for which the loop of BSP_QSPI_Write makes at most
\* MaxPages + 2 passes
WriteInputs ==
  {in \in (AddrLow \cup AddrHigh) \X SizeLow : ~LongWrite(in[1], in[2])}
    \cup ({ToU32(n) : n \in Near(N25Q256A_PAGE_SIZE)} \X SizeHigh)
MaxWriteCalls == 5 * (MaxPages + 2)
\* the HAL calls of BSP_QSPI_Init: transport set-up, memory reset, 4-byte
\* address mode, dummy cycles
MaxInitCalls == 3 + 3 + 4 + 6

\* what the environment may do to the n HAL calls of a function: none fails,
\* one fails, or all fail from some call on
FailSets(n) ==
  {{}} \cup {{i} : i \in 1..n} \cup {i..n : i \in 1..n}

Bytes == 0..255
\* values of the volatile configuration register
VcrValues == {0, 15, 171, 240, 251, 255}

\* coordinates of the centre of a circle
Coords == (0..MaxCoord) \cup {40000, 65535}
\* coordinates of the end points of a line: no two of them are between
\* MaxCoord + 1 and 2^15 apart, so that a line has few pixels
LineCoords == (0..MaxCoord) \cup {40000, 40001}
\* the end points of a line: any four of these coordinates, and lines that
\* go back by 2^15 in one coordinate
LineInputs ==
  (LineCoords \X LineCoords \X LineCoords \X LineCoords)
    \cup {<<2^15, 0, 0, 0>>, <<2^15 + 1, 1, 1, 1>>, <<0, 2^15, 0, 0>>}
Colors == {0, 63488}
\* the entries a driver table may leave NULL
Absent == {{}, {"DrawHLine", "DrawVLine"}, {"WritePixel", "SetDisplayWindow"},
           {"ReadPixel", "DrawBitmap", "DisplayOn", "DisplayOff"}}
\* vertices, and the arrays of at most n of them
PolyPoints == (0..2) \X (0..1)
Polygons(n) == UNION {[1..k -> PolyPoints] : k \in 0..n}
\* character codes, and the strings of at most n of them
Chars == {65, 66}
Strings(n) == UNION {[1..k -> Chars] : k \in 0..n}
\* Line_ModeTypdef
Modes == {"CENTER_MODE", "RIGHT_MODE", "LEFT_MODE"}
\* the fonts of which a character fits the width of the display
TextFonts == {f \in Fonts : sFONT[f].Width <= LcdWidth}
\* columns and rows of a text or picture
TextCols == {0, 1, 4}
TextRows == {0, 1}
\* headers of pictures: the 16-bit halves of width and height
Pictures ==
  {[BitmapZero EXCEPT !.bfOffBits = OFFSET_BITMAP,
                      !.biWidth_lo = wl, !.biWidth_hi = wh,
                      !.biHeight_lo = hl, !.biHeight_hi = hh,
                      !.pixels = <<"picture">>] :
     wl \in {1, 3}, wh \in {0, 1}, hl \in {2}, hh \in {0, 1}}
\* the identifiers ReadID may return
LcdIds == {"SPFD5408_ID", "HX8347D_ID"}

-----------------------------------------------------------------------------
(* The state machine.                                                       *)

NoCall == [fn |-> "-", args |-> <<>>]
Called(fn, args) == [fn |-> fn, args |-> args]
InfoZero ==
  [FlashSize |-> 0, EraseSectorSize |-> 0, EraseSectorsNumber |-> 0,
   ProgPageSize |-> 0, ProgPagesNumber |-> 0]

Init ==
  /\ pc = "idle"
  /\ call = NoCall
  /\ ret = "-"
  /\ trace = <<>>
  /\ QSPIHandle = HandleZero
  /\ pInfo = InfoZero
  /\ DrawProp = [TextColor |-> 0, BackColor |-> 0, pFont |-> "NULL"]
  /\ lcd_drv = NoDriver
  /\ bitmap = BitmapZero
  /\ window = <<0, 0, 0, 0>>

\* the caller has looked at the result and goes on
Return ==
  /\ pc = "returned"
  /\ pc' = "idle"
  /\ call' = NoCall
  /\ ret' = "-"
  /\ trace' = <<>>
  /\ UNCHANGED <<qspiVars, lcdVars>>

Call_BSP_QSPI_Init ==
  /\ pc = "idle"
  /\ \E fails \in FailSets(MaxInitCalls), vcr \in VcrValues :
       LET r == BSP_QSPI_Init(QSPIHandle, fails, vcr)
       IN  /\ call' = Called("BSP_QSPI_Init", <<>>)
           /\ ret' = r.ret
           /\ trace' = r.t
           /\ QSPIHandle' = r.h
  /\ pc' = "returned"
  /\ UNCHANGED <<pInfo, lcdVars>>

Call_BSP_QSPI_DeInit ==
  /\ pc = "idle"
  /\ \E fails \in FailSets(1) :
       LET r == BSP_QSPI_DeInit(QSPIHandle, fails)
       IN  /\ call' = Called("BSP_QSPI_DeInit", <<>>)
           /\ ret' = r.ret
           /\ trace' = r.t
           /\ QSPIHandle' = r.h
  /\ pc' = "returned"
  /\ UNCHANGED <<pInfo, lcdVars>>

Call_BSP_QSPI_Read ==
  /\ pc = "idle"
  /\ \E in \in WriteInputs, fails \in FailSets(2) :
       LET r == BSP_QSPI_Read(fails, in[1], in[2])
       IN  /\ call' = Called("BSP_QSPI_Read", in)
           /\ ret' = r.ret
           /\ trace' = r.t
  /\ pc' = "returned"
  /\ UNCHANGED <<qspiVars, lcdVars>>

Call_BSP_QSPI_Write ==
  /\ pc = "idle"
  /\ \E in \in WriteInputs, fails \in FailSets(MaxWriteCalls) :
       LET r == BSP_QSPI_Write(fails, in[1], in[2])
       IN  /\ call' = Called("BSP_QSPI_Write", in)
           /\ ret' = r.ret
           /\ trace' = r.t
  /\ pc' = "returned"
  /\ UNCHANGED <<qspiVars, lcdVars>>

Call_BSP_QSPI_Erase_Block ==
  /\ pc = "idle"
  /\ \E addr \in AddrLow \cup AddrHigh, fails \in FailSets(4) :
       LET r == BSP_QSPI_Erase_Block(fails, addr)
       IN  /\ call' = Called("BSP_QSPI_Erase_Block", <<addr>>)
           /\ ret' = r.ret
           /\ trace' = r.t
  /\ pc' = "returned"
  /\ UNCHANGED <<qspiVars, lcdVars>>

Call_BSP_QSPI_Erase_Chip ==
  /\ pc = "idle"
  /\ \E fails \in FailSets(4) :
       LET r == BSP_QSPI_Erase_Chip(fails)
       IN  /\ call' = Called("BSP_QSPI_Erase_Chip", <<>>)
           /\ ret' = r.ret
           /\ trace' = r.t
  /\ pc' = "returned"
  /\ UNCHANGED <<qspiVars, lcdVars>>

Call_BSP_QSPI_GetStatus ==
  /\ pc = "idle"
  /\ \E fsr \in Bytes, fails \in FailSets(2) :
       LET r == BSP_QSPI_GetStatus(fails, fsr)
       IN  /\ call' = Called("BSP_QSPI_GetStatus", <<>>)
           /\ ret' = r.ret
           /\ trace' = r.t
  /\ pc' = "returned"
  /\ UNCHANGED <<qspiVars, lcdVars>>

Call_BSP_QSPI_GetInfo ==
  /\ pc = "idle"
  /\ call' = Called("BSP_QSPI_GetInfo", <<>>)
  /\ pInfo' = BSP_QSPI_GetInfo
  /\ ret' = QSPI_OK
  /\ trace' = <<>>
  /\ pc' = "returned"
  /\ UNCHANGED <<QSPIHandle, lcdVars>>

Call_BSP_QSPI_EnableMemoryMappedMode ==
  /\ pc = "idle"
  /\ \E fails \in FailSets(1) :
       LET r == BSP_QSPI_EnableMemoryMappedMode(fails)
       IN  /\ call' = Called("BSP_QSPI_EnableMemoryMappedMode", <<>>)
           /\ ret' = r.ret
           /\ trace' = r.t
  /\ pc' = "returned"
  /\ UNCHANGED <<qspiVars, lcdVars>>

Call_BSP_LCD_Init ==
  /\ pc = "idle"
  /\ \E id \in LcdIds, absent \in Absent :
       LET r == BSP_LCD_Init(id, absent)
       IN  /\ call' = Called("BSP_LCD_Init", <<>>)
           /\ ret' = r.ret
           /\ trace' = r.t
           /\ DrawProp' = r.prop
           /\ lcd_drv' = r.drv
  /\ pc' = "returned"
  /\ UNCHANGED <<qspiVars, bitmap, window>>

Call_BSP_LCD_SetTextColor ==
  /\ pc = "idle"
  /\ \E Color \in Colors :
       /\ call' = Called("BSP_LCD_SetTextColor", <<Color>>)
       /\ DrawProp' = BSP_LCD_SetTextColor(DrawProp, Color)
  /\ ret' = "void"
  /\ trace' = <<>>
  /\ pc' = "returned"
  /\ UNCHANGED <<qspiVars, lcdDev>>

Call_BSP_LCD_SetBackColor ==
  /\ pc = "idle"
  /\ \E Color \in Colors :
       /\ call' = Called("BSP_LCD_SetBackColor", <<Color>>)
       /\ DrawProp' = BSP_LCD_SetBackColor(DrawProp, Color)
  /\ ret' = "void"
  /\ trace' = <<>>
  /\ pc' = "returned"
  /\ UNCHANGED <<qspiVars, lcdDev>>

Call_BSP_LCD_SetFont ==
  /\ pc = "idle"
  /\ \E pFonts \in Fonts :
       /\ call' = Called("BSP_LCD_SetFont", <<pFonts>>)
       /\ DrawProp' = BSP_LCD_SetFont(DrawProp, pFonts)
  /\ ret' = "void"
  /\ trace' = <<>>
  /\ pc' = "returned"
  /\ UNCHANGED <<qspiVars, lcdDev>>

\* BSP_LCD_SetFont with a font whose characters fit the display
Call_BSP_LCD_SetFont_Text ==
  /\ pc = "idle"
  /\ \E pFonts \in TextFonts :
       /\ call' = Called("BSP_LCD_SetFont", <<pFonts>>)
       /\ DrawProp' = BSP_LCD_SetFont(DrawProp, pFonts)
  /\ ret' = "void"
  /\ trace' = <<>>
  /\ pc' = "returned"
  /\ UNCHANGED <<qspiVars, lcdDev>>

\* The drawing functions dereference lcd_drv: they are called after
\* BSP_LCD_Init.
Call_BSP_LCD_DrawHLine ==
  /\ pc = "idle"
  /\ lcd_drv # NoDriver
  /\ \E Xpos \in 0..MaxCoord, Ypos \in 0..MaxCoord, Length \in 0..MaxLen :
       /\ call' = Called("BSP_LCD_DrawHLine", <<Xpos, Ypos, Length>>)
       /\ trace' = BSP_LCD_DrawHLine(<<>>, lcd_drv, DrawProp, Xpos, Ypos, Length)
  /\ ret' = "void"
  /\ pc' = "returned"
  /\ UNCHANGED <<qspiVars, lcdVars>>

Call_BSP_LCD_DrawVLine ==
  /\ pc = "idle"
  /\ lcd_drv # NoDriver
  /\ \E Xpos \in 0..MaxCoord, Ypos \in 0..MaxCoord, Length \in 0..MaxLen :
       /\ call' = Called("BSP_LCD_DrawVLine", <<Xpos, Ypos, Length>>)
       /\ trace' = BSP_LCD_DrawVLine(<<>>, lcd_drv, DrawProp, Xpos, Ypos, Length)
  /\ window' = WindowAfter(window, trace')
  /\ ret' = "void"
  /\ pc' = "returned"
  /\ UNCHANGED <<qspiVars, DrawProp, lcd_drv, bitmap>>

\* the calls that return: see LineTerminates
Call_BSP_LCD_DrawLine ==
  /\ pc = "idle"
  /\ lcd_drv # NoDriver
  /\ \E in \in LineInputs :
       /\ LineTerminates(in[1], in[2], in[3], in[4])
       /\ call' = Called("BSP_LCD_DrawLine", in)
       /\ trace' = BSP_LCD_DrawLine(<<>>, lcd_drv, DrawProp, in[1], in[2], in[3], in[4])
  /\ ret' = "void"
  /\ pc' = "returned"
  /\ UNCHANGED <<qspiVars, lcdVars>>

\* With Radius 0 the first pass decrements cury at 0: cury is 2^32 - 1 and
\* the loop goes on for some 2^31 passes more, each of which sets the font
\* (lcd.c:576-577) and hands eight pixels to LCD_DrawPixel.  With no
\* WritePixel entry these passes call nothing and the call returns with the
\* font set.  With a WritePixel entry the call makes more driver calls than
\* can be listed: those calls are not among the inputs.
Call_BSP_LCD_DrawCircle ==
  /\ pc = "idle"
  /\ lcd_drv # NoDriver
  /\ \E Xpos \in Coords, Ypos \in Coords, Radius \in 0..MaxRadius :
       LET w == CircleWrap(Radius, MaxRadius + 2)
           r == IF w = 0
                THEN BSP_LCD_DrawCircle(<<>>, lcd_drv, DrawProp, Xpos, Ypos, Radius)
                ELSE [t |-> <<>>,
                      prop |-> BSP_LCD_SetFont(DrawProp, LCD_DEFAULT_FONT)]
       IN  /\ w = 0 \/ "WritePixel" \notin lcd_drv.fns
           /\ call' = Called("BSP_LCD_DrawCircle", <<Xpos, Ypos, Radius>>)
           /\ trace' = r.t
           /\ DrawProp' = r.prop
  /\ ret' = "void"
  /\ pc' = "returned"
  /\ UNCHANGED <<qspiVars, lcdDev>>

\* With Radius 0 the first loop wraps cury as that of BSP_LCD_DrawCircle
\* does, and its chords go to BSP_LCD_DrawVLine.  With neither a DrawVLine
\* nor a WritePixel entry the call makes no driver call at all and returns
\* with the text colour set to itself (lcd.c:717, 751) and the font that
\* BSP_LCD_DrawCircle sets.  With one of the two entries, as in every driver
\* table of Absent, the call makes more driver calls than can be listed:
\* those calls are not among the inputs.
Call_BSP_LCD_FillCircle ==
  /\ pc = "idle"
  /\ lcd_drv # NoDriver
  /\ \E Xpos \in Coords, Ypos \in Coords, Radius \in 0..MaxRadius :
       LET w == CircleWrap(Radius, MaxRadius + 2)
           p == BSP_LCD_SetTextColor(DrawProp, DrawProp.TextColor)
           r == IF w = 0
                THEN BSP_LCD_FillCircle(<<>>, lcd_drv, DrawProp, Xpos, Ypos, Radius)
                ELSE [t |-> <<>>, prop |-> BSP_LCD_SetFont(p, LCD_DEFAULT_FONT)]
       IN  /\ w = 0 \/ {"DrawVLine", "WritePixel"} \cap lcd_drv.fns = {}
           /\ call' = Called("BSP_LCD_FillCircle", <<Xpos, Ypos, Radius>>)
           /\ trace' = r.t
           /\ DrawProp' = r.prop
  /\ window' = WindowAfter(window, trace')
  /\ ret' = "void"
  /\ pc' = "returned"
  /\ UNCHANGED <<qspiVars, lcd_drv, bitmap>>

Call_BSP_LCD_DisplayChar ==
  /\ pc = "idle"
  /\ lcd_drv # NoDriver
  /\ \E Xpos \in TextCols, Ypos \in TextRows, Ascii \in Chars :
       LET r == BSP_LCD_DisplayChar(<<>>, lcd_drv, DrawProp, bitmap, Xpos, Ypos, Ascii)
       IN  /\ call' = Called("BSP_LCD_DisplayChar", <<Xpos, Ypos, Ascii>>)
           /\ trace' = r.t
           /\ bitmap' = r.bmp
  /\ window' = WindowAfter(window, trace')
  /\ ret' = "void"
  /\ pc' = "returned"
  /\ UNCHANGED <<qspiVars, DrawProp, lcd_drv>>

Call_BSP_LCD_DisplayStringAt ==
  /\ pc = "idle"
  /\ lcd_drv # NoDriver
  /\ \E Xpos \in TextCols, Ypos \in TextRows, pText \in Strings(MaxText),
        Mode \in Modes :
       LET r == BSP_LCD_DisplayStringAt(<<>>, lcd_drv, DrawProp, bitmap, Xpos, Ypos,
                                        pText, Mode)
       IN  /\ call' = Called("BSP_LCD_DisplayStringAt", <<Xpos, Ypos, pText, Mode>>)
           /\ trace' = r.t
           /\ bitmap' = r.bmp
  /\ window' = WindowAfter(window, trace')
  /\ ret' = "void"
  /\ pc' = "returned"
  /\ UNCHANGED <<qspiVars, DrawProp, lcd_drv>>

Call_BSP_LCD_DisplayStringAtLine ==
  /\ pc = "idle"
  /\ lcd_drv # NoDriver
  /\ \E Line \in TextRows, pText \in Strings(MaxText) :
       LET r == BSP_LCD_DisplayStringAtLine(<<>>, lcd_drv, DrawProp, bitmap, Line,
                                            pText)
       IN  /\ call' = Called("BSP_LCD_DisplayStringAtLine", <<Line, pText>>)
           /\ trace' = r.t
           /\ bitmap' = r.bmp
  /\ window' = WindowAfter(window, trace')
  /\ ret' = "void"
  /\ pc' = "returned"
  /\ UNCHANGED <<qspiVars, DrawProp, lcd_drv>>

Call_BSP_LCD_ClearStringLine ==
  /\ pc = "idle"
  /\ lcd_drv # NoDriver
  /\ \E Line \in TextRows :
       LET r == BSP_LCD_ClearStringLine(<<>>, lcd_drv, DrawProp, Line)
       IN  /\ call' = Called("BSP_LCD_ClearStringLine", <<Line>>)
           /\ trace' = r.t
           /\ DrawProp' = r.prop
  /\ ret' = "void"
  /\ pc' = "returned"
  /\ UNCHANGED <<qspiVars, lcdDev>>

Call_BSP_LCD_DrawBitmap ==
  /\ pc = "idle"
  /\ lcd_drv # NoDriver
  /\ \E Xpos \in TextCols, Ypos \in TextRows, pBmp \in Pictures :
       /\ call' = Called("BSP_LCD_DrawBitmap", <<Xpos, Ypos, pBmp>>)
       /\ trace' = BSP_LCD_DrawBitmap(<<>>, lcd_drv, Xpos, Ypos, pBmp)
  /\ window' = WindowAfter(window, trace')
  /\ ret' = "void"
  /\ pc' = "returned"
  /\ UNCHANGED <<qspiVars, DrawProp, lcd_drv, bitmap>>

Call_BSP_LCD_Clear ==
  /\ pc = "idle"
  /\ lcd_drv # NoDriver
  /\ \E Color \in Colors :
       LET r == BSP_LCD_Clear(<<>>, lcd_drv, DrawProp, Color)
       IN  /\ call' = Called("BSP_LCD_Clear", <<Color>>)
           /\ trace' = r.t
           /\ DrawProp' = r.prop
  /\ ret' = "void"
  /\ pc' = "returned"
  /\ UNCHANGED <<qspiVars, lcdDev>>

Call_BSP_LCD_DrawRect ==
  /\ pc = "idle"
  /\ lcd_drv # NoDriver
  /\ \E Xpos \in 0..MaxCoord, Ypos \in 0..MaxCoord,
        Width \in 0..MaxLen, Height \in 0..MaxLen :
       /\ call' = Called("BSP_LCD_DrawRect", <<Xpos, Ypos, Width, Height>>)
       /\ trace' = BSP_LCD_DrawRect(<<>>, lcd_drv, DrawProp, Xpos, Ypos, Width, Height)
  /\ window' = WindowAfter(window, trace')
  /\ ret' = "void"
  /\ pc' = "returned"
  /\ UNCHANGED <<qspiVars, DrawProp, lcd_drv, bitmap>>

Call_BSP_LCD_FillRect ==
  /\ pc = "idle"
  /\ lcd_drv # NoDriver
  /\ \E Xpos \in 0..MaxCoord, Ypos \in 0..MaxCoord,
        Width \in 0..MaxLen, Height \in 0..MaxLen :
       LET r == BSP_LCD_FillRect(<<>>, lcd_drv, DrawProp, Xpos, Ypos, Width, Height)
       IN  /\ call' = Called("BSP_LCD_FillRect", <<Xpos, Ypos, Width, Height>>)
           /\ trace' = r.t
           /\ DrawProp' = r.prop
  /\ window' = WindowAfter(window, trace')
  /\ ret' = "void"
  /\ pc' = "returned"
  /\ UNCHANGED <<qspiVars, lcd_drv, bitmap>>

\* The radii are 0..MaxLen.  und is used with XRadius = 0 only.
Call_BSP_LCD_DrawEllipse ==
  /\ pc = "idle"
  /\ lcd_drv # NoDriver
  /\ \E Xpos \in 0..MaxCoord, Ypos \in 0..MaxCoord,
        XRadius \in 0..MaxLen, YRadius \in 0..MaxLen, und \in Undefined :
       /\ call' = Called("BSP_LCD_DrawEllipse", <<Xpos, Ypos, XRadius, YRadius>>)
       /\ trace' = BSP_LCD_DrawEllipse(<<>>, lcd_drv, DrawProp, Xpos, Ypos,
                                       XRadius, YRadius, und)
  /\ ret' = "void"
  /\ pc' = "returned"
  /\ UNCHANGED <<qspiVars, lcdVars>>

\* A chord of a half-length of 65535 is 65535 pixels long: it is followed
\* when the driver draws it in one call.
Call_BSP_LCD_FillEllipse ==
  /\ pc = "idle"
  /\ lcd_drv # NoDriver
  /\ \E Xpos \in 0..MaxCoord, Ypos \in 0..MaxCoord,
        XRadius \in 0..MaxLen, YRadius \in 0..MaxLen, und \in Undefined :
       /\ (XRadius = 0 /\ YRadius > 0 /\ und.inf = 65535) => "DrawVLine" \in lcd_drv.fns
       /\ call' = Called("BSP_LCD_FillEllipse", <<Xpos, Ypos, XRadius, YRadius>>)
       /\ trace' = BSP_LCD_FillEllipse(<<>>, lcd_drv, DrawProp, Xpos, Ypos,
                                       XRadius, YRadius, und)
  /\ window' = WindowAfter(window, trace')
  /\ ret' = "void"
  /\ pc' = "returned"
  /\ UNCHANGED <<qspiVars, DrawProp, lcd_drv, bitmap>>

Call_BSP_LCD_ReadPixel ==
  /\ pc = "idle"
  /\ lcd_drv # NoDriver
  /\ \E Xpos \in 0..MaxCoord, Ypos \in 0..MaxCoord, pixel \in Colors :
       LET r == BSP_LCD_ReadPixel(<<>>, lcd_drv, Xpos, Ypos, pixel)
       IN  /\ call' = Called("BSP_LCD_ReadPixel", <<Xpos, Ypos>>)
           /\ trace' = r.t
           /\ ret' = r.ret
  /\ pc' = "returned"
  /\ UNCHANGED <<qspiVars, lcdVars>>

Call_BSP_LCD_DisplayOn ==
  /\ pc = "idle"
  /\ lcd_drv # NoDriver
  /\ call' = Called("BSP_LCD_DisplayOn", <<>>)
  /\ trace' = BSP_LCD_DisplayOn(<<>>, lcd_drv)
  /\ pc' \in CallOutcomes(lcd_drv, "DisplayOn")
  /\ ret' = IF pc' = "returned" THEN "void" ELSE "-"
  /\ UNCHANGED <<qspiVars, lcdVars>>

Call_BSP_LCD_DisplayOff ==
  /\ pc = "idle"
  /\ lcd_drv # NoDriver
  /\ call' = Called("BSP_LCD_DisplayOff", <<>>)
  /\ trace' = BSP_LCD_DisplayOff(<<>>, lcd_drv)
  /\ pc' \in CallOutcomes(lcd_drv, "DisplayOff")
  /\ ret' = IF pc' = "returned" THEN "void" ELSE "-"
  /\ UNCHANGED <<qspiVars, lcdVars>>

\* PointCount is the length of the array
Call_BSP_LCD_DrawPolygon ==
  /\ pc = "idle"
  /\ lcd_drv # NoDriver
  /\ \E pPoints \in Polygons(MaxPoints) :
       /\ call' = Called("BSP_LCD_DrawPolygon", <<pPoints, Len(pPoints)>>)
       /\ trace' = BSP_LCD_DrawPolygon(<<>>, lcd_drv, DrawProp, pPoints, Len(pPoints))
  /\ ret' = "void"
  /\ pc' = "returned"
  /\ UNCHANGED <<qspiVars, lcdVars>>

NextQSPI ==
  \/ Call_BSP_QSPI_Init
  \/ Call_BSP_QSPI_DeInit
  \/ Call_BSP_QSPI_Read
  \/ Call_BSP_QSPI_Write
  \/ Call_BSP_QSPI_Erase_Block
  \/ Call_BSP_QSPI_Erase_Chip
  \/ Call_BSP_QSPI_GetStatus
  \/ Call_BSP_QSPI_GetInfo
  \/ Call_BSP_QSPI_EnableMemoryMappedMode
  \/ Return

\* the QSPI driver alone
SpecQSPI == Init /\ [][NextQSPI]_vars

NextLCD ==
  \/ Call_BSP_LCD_Init
  \/ Call_BSP_LCD_SetTextColor
  \/ Call_BSP_LCD_SetBackColor
  \/ Call_BSP_LCD_SetFont
  \/ Call_BSP_LCD_DrawHLine
  \/ Call_BSP_LCD_DrawVLine
  \/ Call_BSP_LCD_DrawLine
  \/ Call_BSP_LCD_DrawCircle
  \/ Return

\* the LCD driver alone
SpecLCD == Init /\ [][NextLCD]_vars

\* the composite shapes and the fills of the LCD driver, in the foreground
\* colours
NextShapes ==
  \/ Call_BSP_LCD_Init
  \/ Call_BSP_LCD_SetTextColor
  \/ Call_BSP_LCD_DrawCircle
  \/ Call_BSP_LCD_FillCircle
  \/ Call_BSP_LCD_DrawPolygon
  \/ Call_BSP_LCD_DrawRect
  \/ Call_BSP_LCD_FillRect
  \/ Call_BSP_LCD_DrawEllipse
  \/ Call_BSP_LCD_FillEllipse
  \/ Call_BSP_LCD_Clear
  \/ Call_BSP_LCD_ReadPixel
  \/ Call_BSP_LCD_DisplayOn
  \/ Call_BSP_LCD_DisplayOff
  \/ Return

SpecShapes == Init /\ [][NextShapes]_vars

\* the text and picture functions of the LCD driver, in the default colours,
\* and the vertical line, which moves the window as they do
NextText ==
  \/ Call_BSP_LCD_Init
  \/ Call_BSP_LCD_SetFont_Text
  \/ Call_BSP_LCD_DisplayChar
  \/ Call_BSP_LCD_DisplayStringAt
  \/ Call_BSP_LCD_DisplayStringAtLine
  \/ Call_BSP_LCD_ClearStringLine
  \/ Call_BSP_LCD_DrawBitmap
  \/ Call_BSP_LCD_DrawVLine
  \/ Return

SpecText == Init /\ [][NextText]_vars

\* single characters in any of the colours: the scratch buffer of the
\* glyphs
NextGlyph ==
  \/ Call_BSP_LCD_Init
  \/ Call_BSP_LCD_SetFont_Text
  \/ Call_BSP_LCD_SetTextColor
  \/ Call_BSP_LCD_DisplayChar
  \/ Return

SpecGlyph == Init /\ [][NextGlyph]_vars

\* the two drivers share no state
Next == NextQSPI \/ NextLCD \/ NextShapes \/ NextText \/ NextGlyph

Spec == Init /\ [][Next]_vars

-----------------------------------------------------------------------------
(* Properties of the QSPI driver.                                           *)

Returned(fn) == pc = "returned" /\ call.fn = fn
\* no call of the trace failed
AllOk(t) == \A i \in 1..Len(t) : t[i].ok
IsCommand(e, instr) == e.fn = "HAL_QSPI_Command" /\ e.cmd.Instruction = instr
\* the program command frames of a trace, in order
ProgFrames(t) ==
  SelectSeq(t, LAMBDA e : IsCommand(e, "EXT_QUAD_IN_FAST_PROG_CMD"))
\* the data transmissions of a trace, in order
Transmits(t) == SelectSeq(t, LAMBDA e : e.fn = "HAL_QSPI_Transmit")
\* floor(v / PAGE_SIZE) for v = hi * 2^16 + lo, where lo may lie outside
\* 0..2^16-1 (v is not reduced modulo 2^32)
PageIndex(hi, lo) ==
  hi * (Half \div N25Q256A_PAGE_SIZE) + (lo \div N25Q256A_PAGE_SIZE)

\* C1: for every start address and every length n >= 1, every program
\* command frame that BSP_QSPI_Write issues (also in a run that fails later)
\* carries at most one page of data and its interval
\* [Address, Address + NbData) lies within one page:
\* floor(Address / P) = floor((Address + NbData - 1) / P) and NbData <= P.
C1_NoPageCrossing ==
  (Returned("BSP_QSPI_Write") /\ call.args[2] # ToU32(0)) =>
    \A i \in 1..Len(trace) :
      IsCommand(trace[i], "EXT_QUAD_IN_FAST_PROG_CMD") =>
        LET A == trace[i].cmd.Address
            N == trace[i].cmd.NbData
        IN  /\ N.hi = 0
            /\ N.lo <= N25Q256A_PAGE_SIZE
            /\ PageIndex(A.hi, A.lo) = PageIndex(A.hi, A.lo + N.lo - 1)

\* a write that starts inside a page, went over at least three pages and
\* succeeded
C1_Witness ==
  /\ Returned("BSP_QSPI_Write")
  /\ ret = QSPI_OK
  /\ U32Mod(call.args[1], N25Q256A_PAGE_SIZE) # 0
  /\ Len(ProgFrames(trace)) >= 3

\* the sum of the NbData of the frames, modulo 2^32
RECURSIVE TotalData(_)
TotalData(fs) ==
  IF fs = <<>> THEN ToU32(0)
  ELSE U32Add(fs[1].cmd.NbData, TotalData(Tail(fs)))

\* C2: for every start address a and length n, when every transport call
\* succeeds BSP_QSPI_Write returns QSPI_OK after issuing chunks that start
\* at a, each starting where the previous one ended, whose lengths add up
\* to n (so their union is exactly [a, a+n) and they are disjoint), each
\* transmitted from the source buffer at offset (chunk start - a).
C2_ChunksCoverSpan ==
  (Returned("BSP_QSPI_Write") /\ AllOk(trace)) =>
    LET fs == ProgFrames(trace)
        tx == Transmits(trace)
        a  == call.args[1]
        n  == call.args[2]
    IN  /\ ret = QSPI_OK
        /\ Len(fs) >= 1
        /\ Len(tx) = Len(fs)
        /\ fs[1].cmd.Address = a
        /\ \A i \in 1..(Len(fs) - 1) :
             fs[i + 1].cmd.Address = U32Add(fs[i].cmd.Address, fs[i].cmd.NbData)
        /\ \A i \in 1..Len(fs) : fs[i].cmd.NbData.hi = 0
        /\ TotalData(fs) = n
        /\ \A i \in 1..Len(fs) :
             /\ tx[i].buf = "pData"
             /\ tx[i].off = U32Sub(fs[i].cmd.Address, a)

\* the same, for the spans that end at or below the start of the last page
\* of the 32-bit address space (a + n <= 2^32 - P, nothing wraps)
C2_InRange ==
  LET a == call.args[1]
      n == call.args[2]
  IN  (Returned("BSP_QSPI_Write")
         /\ U32Le(a, U32Add(a, n))
         /\ U32Le(U32Add(a, n), Top(N25Q256A_PAGE_SIZE)))
        => C2_ChunksCoverSpan

\* bit b (a power of two) of the byte v is set
BitSet(v, b) == (v \div b) % 2 = 1

\* C3: BSP_QSPI_GetStatus classifies the flag status register by strict
\* priority, for every 8-bit value: a protection, VPP, program or erase
\* error bit gives QSPI_ERROR whatever the other bits; otherwise a program
\* or erase suspend bit gives QSPI_SUSPENDED; otherwise the ready bit gives
\* QSPI_OK; otherwise QSPI_BUSY.  A failed command or receive call gives
\* QSPI_ERROR.
C3_StatusPriority ==
  Returned("BSP_QSPI_GetStatus") =>
    IF ~AllOk(trace) THEN ret = QSPI_ERROR
    ELSE
      LET reg == trace[Len(trace)].val
          err == \E b \in {N25Q256A_FSR_PRERR, N25Q256A_FSR_VPPERR,
                           N25Q256A_FSR_PGERR, N25Q256A_FSR_ERERR} : BitSet(reg, b)
          sus == \E b \in {N25Q256A_FSR_PGSUS, N25Q256A_FSR_ERSUS} : BitSet(reg, b)
          rdy == BitSet(reg, N25Q256A_FSR_READY)
      IN  /\ Len(trace) = 2
          /\ trace[2].fn = "HAL_QSPI_Receive"
          /\ reg \in Bytes
          /\ err => ret = QSPI_ERROR
          /\ (~err /\ sus) => ret = QSPI_SUSPENDED
          /\ (~err /\ ~sus /\ rdy) => ret = QSPI_OK
          /\ (~err /\ ~sus /\ ~rdy) => ret = QSPI_BUSY

\* the register holds an error bit, a suspend bit and the ready bit at once,
\* and the status is QSPI_ERROR
C3_Witness ==
  /\ Returned("BSP_QSPI_GetStatus")
  /\ AllOk(trace)
  /\ Len(trace) = 2
  /\ BitSet(trace[2].val, N25Q256A_FSR_PGERR)
  /\ BitSet(trace[2].val, N25Q256A_FSR_ERSUS)
  /\ BitSet(trace[2].val, N25Q256A_FSR_READY)
  /\ ret = QSPI_ERROR

\* the functions C4 names
FailFast == {"BSP_QSPI_Write", "BSP_QSPI_Erase_Block", "BSP_QSPI_Erase_Chip",
             "BSP_QSPI_Read", "BSP_QSPI_GetStatus", "BSP_QSPI_Init"}

\* C4: no QSPI operation retries or goes on after a failure.  In a call of
\* Write, Erase_Block, Erase_Chip, Read, GetStatus or Init, a transport call
\* that fails is the last entry of the trace, and the call then returns
\* something other than QSPI_OK.  A write that fails returns QSPI_ERROR; the
\* frames it issued before are those of the run without failure (nothing is
\* erased, no chunk is programmed twice, no later chunk is started).
C4_NoRetryAfterFailure ==
  (pc = "returned" /\ call.fn \in FailFast) =>
    /\ \A i \in 1..(Len(trace) - 1) : trace[i].ok
    /\ ~AllOk(trace) => ret # QSPI_OK
    /\ (call.fn = "BSP_QSPI_Write" /\ ~AllOk(trace)) =>
         LET good == BSP_QSPI_Write({}, call.args[1], call.args[2]).t
             fs   == ProgFrames(trace)
         IN  /\ ret = QSPI_ERROR
             /\ Len(trace) <= Len(good)
             /\ \A i \in 1..(Len(trace) - 1) : trace[i] = good[i]
             /\ trace[Len(trace)] = [good[Len(trace)] EXCEPT !.ok = FALSE]
             /\ \A i \in 1..Len(trace) :
                  trace[i].cmd.Instruction \notin {"SUBSECTOR_ERASE_CMD", "BULK_ERASE_CMD"}
             /\ \A i, j \in 1..Len(fs) :
                  i # j => fs[i].cmd.Address # fs[j].cmd.Address

\* a write whose third chunk fails, after two chunks were programmed
C4_Witness ==
  /\ Returned("BSP_QSPI_Write")
  /\ ret = QSPI_ERROR
  /\ ~trace[Len(trace)].ok
  /\ Len(ProgFrames(trace)) = 3
  /\ Len(trace) < Len(BSP_QSPI_Write({}, call.args[1], call.args[2]).t)

\* the position of the first failed call of a trace, 0 if there is none
FirstFailure(t) ==
  IF AllOk(t) THEN 0 ELSE CHOOSE i \in 1..Len(t) : ~t[i].ok /\ \A j \in 1..(i - 1) : t[j].ok

\* C5: BSP_QSPI_Init returns QSPI_NOT_SUPPORTED whenever a memory setup step
\* (memory reset, 4-byte address mode, dummy cycles) fails or times out,
\* QSPI_ERROR only when HAL_QSPI_DeInit or HAL_QSPI_Init fails, and QSPI_OK
\* only when every step succeeded.
C5_InitStatus ==
  Returned("BSP_QSPI_Init") =>
    LET f == FirstFailure(trace)
        transport == f # 0 /\ trace[f].fn \in {"HAL_QSPI_DeInit", "HAL_QSPI_Init"}
        setup == f # 0 /\ trace[f].fn \notin {"HAL_QSPI_DeInit", "HAL_QSPI_Init"}
    IN  /\ ret \in {QSPI_OK, QSPI_ERROR, QSPI_NOT_SUPPORTED}
        /\ setup => ret = QSPI_NOT_SUPPORTED
        /\ ret = QSPI_ERROR => transport
        /\ ret = QSPI_OK => (f = 0 /\ Len(trace) = MaxInitCalls)
        /\ setup => (f > 3 /\ trace[1].ok /\ trace[3].ok)

\* the memory reset timed out (the ready poll after RESET_MEMORY_CMD)
C5_Witness ==
  /\ Returned("BSP_QSPI_Init")
  /\ ret = QSPI_NOT_SUPPORTED
  /\ Len(trace) = 6
  /\ trace[6].fn = "HAL_QSPI_AutoPolling"
  /\ ~trace[6].ok

\* the write-enable command, then the poll for the write-enable latch
IsWriteEnable(e1, e2) ==
  /\ IsCommand(e1, "WRITE_ENABLE_CMD")
  /\ e2.fn = "HAL_QSPI_AutoPolling"
  /\ e2.cmd.Instruction = "READ_STATUS_REG_CMD"
  /\ e2.Mask = N25Q256A_SR_WREN
  /\ e2.Match = N25Q256A_SR_WREN
\* a poll until the write-in-progress bit is clear, waiting at most timeout
IsReadyPoll(e, timeout) ==
  /\ e.fn = "HAL_QSPI_AutoPolling"
  /\ e.cmd.Instruction = "READ_STATUS_REG_CMD"
  /\ e.Mask = N25Q256A_SR_WIP
  /\ e.Match = 0
  /\ e.Timeout = timeout

\* C6: BSP_QSPI_Erase_Block(addr) and BSP_QSPI_Erase_Chip() perform exactly:
\* write enable (command, then poll for the write-enable latch), one erase
\* command frame (subsector erase carrying addr, or bulk erase without an
\* address), one poll of the busy bit whose timeout is the subsector-erase
\* maximum time for the block erase and the bulk-erase maximum time for the
\* chip erase.  They return QSPI_OK only if that final poll matched, and
\* QSPI_ERROR otherwise.
C6_EraseSequence ==
  (pc = "returned" /\ call.fn \in {"BSP_QSPI_Erase_Block", "BSP_QSPI_Erase_Chip"}) =>
    LET block == call.fn = "BSP_QSPI_Erase_Block"
        n == Len(trace)
    IN  /\ n \in 1..4
        /\ (n >= 2 => IsWriteEnable(trace[1], trace[2]))
        /\ (n >= 3 =>
              /\ trace[3].fn = "HAL_QSPI_Command"
              /\ IF block
                 THEN /\ trace[3].cmd.Instruction = "SUBSECTOR_ERASE_CMD"
                      /\ trace[3].cmd.AddressMode = "QSPI_ADDRESS_1_LINE"
                      /\ trace[3].cmd.Address = call.args[1]
                 ELSE /\ trace[3].cmd.Instruction = "BULK_ERASE_CMD"
                      /\ trace[3].cmd.AddressMode = "QSPI_ADDRESS_NONE"
                      /\ trace[3].cmd.Address = U32None)
        /\ (n = 4 =>
              IsReadyPoll(trace[4], IF block THEN N25Q256A_SUBSECTOR_ERASE_MAX_TIME
                                             ELSE N25Q256A_BULK_ERASE_MAX_TIME))
        /\ (AllOk(trace) => n = 4)
        /\ (ret = QSPI_OK <=> (n = 4 /\ AllOk(trace)))
        /\ (ret # QSPI_OK => ret = QSPI_ERROR)
        /\ N25Q256A_SUBSECTOR_ERASE_MAX_TIME < N25Q256A_BULK_ERASE_MAX_TIME

\* a chip erase whose four calls all succeeded
C6_Witness ==
  /\ Returned("BSP_QSPI_Erase_Chip")
  /\ ret = QSPI_OK
  /\ Len(trace) = 4
  /\ trace[4].Timeout = N25Q256A_BULK_ERASE_MAX_TIME

\* C7: BSP_QSPI_GetInfo is a pure accessor.  In whatever state it is called
\* it returns QSPI_OK and the fixed geometry (flash size, subsector size,
\* flash size / subsector size, page size, flash size / page size), makes no
\* call to the transport and changes no state of the driver.
C7_GetInfoPure ==
  [][(pc' = "returned" /\ call'.fn = "BSP_QSPI_GetInfo") =>
       /\ ret' = QSPI_OK
       /\ trace' = <<>>
       /\ QSPIHandle' = QSPIHandle
       /\ lcdVars' = lcdVars
       /\ pInfo'.FlashSize = N25Q256A_FLASH_SIZE
       /\ pInfo'.EraseSectorSize = N25Q256A_SUBSECTOR_SIZE
       /\ pInfo'.EraseSectorsNumber * N25Q256A_SUBSECTOR_SIZE = N25Q256A_FLASH_SIZE
       /\ pInfo'.ProgPageSize = N25Q256A_PAGE_SIZE
       /\ pInfo'.ProgPagesNumber * N25Q256A_PAGE_SIZE = N25Q256A_FLASH_SIZE]_vars

\* BSP_QSPI_GetInfo returned in a state where BSP_QSPI_Init has set up the
\* handle
C7_Witness ==
  /\ Returned("BSP_QSPI_GetInfo")
  /\ QSPIHandle.Instance = "QUADSPI"
  /\ QSPIHandle.Init = HandleInit
  /\ pInfo.ProgPagesNumber = 131072

-----------------------------------------------------------------------------
(* The raster primitives.  A primitive called with the point (X, Y) hands   *)
(* LCD_DrawPixel, and so the component driver's WritePixel, (Y, X): the     *)
(* point of a WritePixel call is <<second argument, first argument>>.       *)

\* the WritePixel calls of a trace, in order, as <<X, Y, colour>>
Plotted(t) ==
  LET w == SelectSeq(t, LAMBDA e : e.fn = "WritePixel")
  IN  [i \in 1..Len(w) |-> <<w[i].args[2], w[i].args[1], w[i].args[3]>>]
\* BSP_LCD_DrawLine returned, and the component driver has a WritePixel
LineDrawn ==
  /\ Returned("BSP_LCD_DrawLine")
  /\ "WritePixel" \in lcd_drv.fns
Sign(v) == IF v > 0 THEN 1 ELSE IF v < 0 THEN -1 ELSE 0

\* C8: for every point (x, y), BSP_LCD_DrawLine(x, y, x, y) makes exactly one
\* pixel write, for the point (x, y), in the current foreground colour (and
\* no other call to the component driver).
C8_DegenerateLine ==
  (LineDrawn /\ call.args[1] = call.args[3] /\ call.args[2] = call.args[4]) =>
    /\ Len(trace) = 1
    /\ Plotted(trace) = <<<<call.args[1], call.args[2], DrawProp.TextColor>>>>

\* a zero-length line at a point off the diagonal, in a colour that is not
\* the default one
C8_Witness ==
  /\ LineDrawn
  /\ call.args = <<2, 1, 2, 1>>
  /\ DrawProp.TextColor = 63488
  /\ Len(trace) = 1

\* C9: an axis-aligned line is plotted pixel by pixel from the first end
\* point to the second: for Y1 = Y2, |X2 - X1| + 1 pixel writes, all with
\* the line's Y, X going from X1 to X2 in unit steps; for X1 = X2, |Y2 - Y1|
\* + 1 pixel writes, all with the line's X, Y going from Y1 to Y2.
C9_AxisAligned ==
  LET X1 == call.args[1]
      Y1 == call.args[2]
      X2 == call.args[3]
      Y2 == call.args[4]
      p  == Plotted(trace)
  IN  (LineDrawn /\ (X1 = X2 \/ Y1 = Y2)) =>
        /\ Len(trace) = Len(p)
        /\ Len(p) = ABS(X2 - X1) + ABS(Y2 - Y1) + 1
        /\ \A i \in 1..Len(p) :
             p[i] = <<X1 + (i - 1) * Sign(X2 - X1), Y1 + (i - 1) * Sign(Y2 - Y1),
                      DrawProp.TextColor>>

\* The same, for the lines whose end points are less than 2^15 - 1 apart:
\* the differences then fit the int16_t locals of BSP_LCD_DrawLine.
C9_ShortAxisAligned ==
  LET X1 == call.args[1]
      Y1 == call.args[2]
      X2 == call.args[3]
      Y2 == call.args[4]
      p  == Plotted(trace)
  IN  (/\ LineDrawn
       /\ X1 = X2 \/ Y1 = Y2
       /\ ABS(X2 - X1) + ABS(Y2 - Y1) < 2^15 - 1) =>
        /\ Len(trace) = Len(p)
        /\ Len(p) = ABS(X2 - X1) + ABS(Y2 - Y1) + 1
        /\ \A i \in 1..Len(p) :
             p[i] = <<X1 + (i - 1) * Sign(X2 - X1), Y1 + (i - 1) * Sign(Y2 - Y1),
                      DrawProp.TextColor>>

\* BSP_LCD_DrawCircle returned, the component driver has a WritePixel, and
\* no coordinate of the circle is below 0 or above 65535
CircleDrawn ==
  /\ Returned("BSP_LCD_DrawCircle")
  /\ "WritePixel" \in lcd_drv.fns
  /\ call.args[1] >= call.args[3]
  /\ call.args[2] >= call.args[3]
  /\ call.args[1] + call.args[3] < 2^16
  /\ call.args[2] + call.args[3] < 2^16
\* the pixels of the trace as offsets from the centre of the call
Offsets ==
  LET p == Plotted(trace)
  IN  {<<p[i][1] - call.args[1], p[i][2] - call.args[2]>> : i \in 1..Len(p)}

\* C10: for every centre and every radius r >= 1 without coordinate
\* wrap-around, the pixels BSP_LCD_DrawCircle plots, as offsets (dx, dy) from
\* the centre, are closed under the reflections of the octant: with (dx, dy)
\* also (-dx, dy), (dx, -dy) and (dy, dx) are plotted.
C10_CircleSymmetry ==
  (CircleDrawn /\ call.args[3] >= 1) =>
    \A o \in Offsets :
      /\ <<-o[1], o[2]>> \in Offsets
      /\ <<o[1], -o[2]>> \in Offsets
      /\ <<o[2], o[1]>> \in Offsets

\* a circle of radius 3, with pixels off the axes and off the diagonals
C10_Witness ==
  /\ CircleDrawn
  /\ call.args[3] = 3
  /\ <<1, 3>> \in Offsets
  /\ <<-3, -1>> \in Offsets

\* s ends with u
EndsWith(s, u) ==
  /\ Len(u) <= Len(s)
  /\ SubSeq(s, Len(s) - Len(u) + 1, Len(s)) = u
\* the set of the points of the WritePixel calls of a trace
PlottedSet(t) == {<<Plotted(t)[i][1], Plotted(t)[i][2]>> : i \in 1..Len(Plotted(t))}

\* C11: for the same centre and radius r >= 1, every pixel that
\* BSP_LCD_DrawCircle writes is also written by BSP_LCD_FillCircle, and
\* BSP_LCD_FillCircle draws its vertical chords first and the outline last:
\* its calls to the component driver end with those of BSP_LCD_DrawCircle,
\* and those before are the calls of vertical lines.
C11_FillCoversOutline ==
  (Returned("BSP_LCD_FillCircle") /\ call.args[3] >= 1) =>
    LET outline == BSP_LCD_DrawCircle(<<>>, lcd_drv, DrawProp, call.args[1],
                                      call.args[2], call.args[3]).t
        chords  == SubSeq(trace, 1, Len(trace) - Len(outline))
    IN  /\ PlottedSet(outline) \subseteq PlottedSet(trace)
        /\ EndsWith(trace, outline)
        /\ chords # <<>>
        /\ \A i \in 1..Len(chords) :
             chords[i].fn \in (IF "DrawVLine" \in lcd_drv.fns
                               THEN {"DrawVLine", "SetDisplayWindow"}
                               ELSE {"WritePixel"})
        /\ "WritePixel" \in lcd_drv.fns => Len(outline) >= 8

\* a filled circle of radius 2 whose chords go to the driver's DrawVLine and
\* whose outline goes to WritePixel
C11_Witness ==
  /\ Returned("BSP_LCD_FillCircle")
  /\ call.args = <<3, 3, 2>>
  /\ trace[1].fn = "SetDisplayWindow"
  /\ trace[Len(trace)].fn = "WritePixel"
  /\ <<3, 1>> \in PlottedSet(trace)

-----------------------------------------------------------------------------
(* Text.  A character drawn at column c goes to the component driver as a   *)
(* DrawBitmap call whose second argument is c.                              *)

\* the columns of the characters drawn, in order
CharColumns(t) ==
  LET b == SelectSeq(t, LAMBDA e : e.fn = "DrawBitmap")
  IN  [i \in 1..Len(b) |-> b[i].args[2]]
\* BSP_LCD_DisplayStringAt returned, and the component driver has a DrawBitmap
StringDrawn ==
  /\ Returned("BSP_LCD_DisplayStringAt")
  /\ "DrawBitmap" \in lcd_drv.fns
FontWidth == sFONT[DrawProp.pFont].Width

\* C12: BSP_LCD_DisplayStringAt with Mode = CENTER_MODE, Xpos = 0 and a
\* string of len <= floor(displayWidth / fontWidth) characters places the
\* text so that the left margin (the start column) and the right margin
\* (displayWidth - start column - len * fontWidth) differ by at most one
\* pixel, for every display width and font width.
C12_Centered ==
  LET len == Len(call.args[3])
  IN  (/\ StringDrawn
       /\ call.args[4] = "CENTER_MODE"
       /\ call.args[1] = 0
       /\ len >= 1
       /\ len <= BSP_LCD_GetXSize(lcd_drv) \div FontWidth) =>
        LET left  == CharColumns(trace)[1]
            right == BSP_LCD_GetXSize(lcd_drv) - left - len * FontWidth
        IN  /\ Len(CharColumns(trace)) = len
            /\ ABS(left - right) <= 1

\* C13: BSP_LCD_DisplayStringAt draws the characters left to right at
\* columns spaced by the font width and stops before the first character
\* that would overflow the display width: for every Xpos, mode and string,
\* every character it draws occupies columns [c, c + fontWidth) with
\* c + fontWidth <= displayWidth.
C13_NoOverflow ==
  StringDrawn =>
    LET cols == CharColumns(trace)
    IN  /\ \A i \in 1..(Len(cols) - 1) : cols[i + 1] = cols[i] + FontWidth
        /\ \A i \in 1..Len(cols) : cols[i] + FontWidth <= BSP_LCD_GetXSize(lcd_drv)

-----------------------------------------------------------------------------
(* Polygons.                                                                *)

\* the calls of the lines between the pairs of vertices segs[k], in order
RECURSIVE LinesOf(_, _)
LinesOf(p, segs) ==
  IF segs = <<>> THEN <<>>
  ELSE BSP_LCD_DrawLine(<<>>, lcd_drv, DrawProp,
                        p[Head(segs)[1]][1], p[Head(segs)[1]][2],
                        p[Head(segs)[2]][1], p[Head(segs)[2]][2])
       \o LinesOf(p, Tail(segs))

\* C14: BSP_LCD_DrawPolygon(points, n) does nothing (no pixel write, no line)
\* when n < 2; when n >= 2 it draws exactly n lines: the closing line between
\* points[0] and points[n-1], and one line from points[i] to points[i+1] for
\* every 0 <= i < n-1.
C14_PolygonLines ==
  Returned("BSP_LCD_DrawPolygon") =>
    LET p == call.args[1]
        n == call.args[2]
    IN  /\ n < 2 => trace = <<>>
        /\ n >= 2 =>
             trace = LinesOf(p, <<<<1, n>>>> \o [i \in 1..(n - 1) |-> <<i, i + 1>>])

\* a triangle with three different vertices, drawn pixel by pixel
C14_Witness ==
  /\ Returned("BSP_LCD_DrawPolygon")
  /\ call.args[1] = <<<<0, 0>>, <<2, 0>>, <<2, 1>>>>
  /\ "WritePixel" \in lcd_drv.fns
  /\ Len(trace) = 3 + 3 + 2

-----------------------------------------------------------------------------
(* The drawing properties.                                                  *)

\* the operations that draw
DrawingOps ==
  {"BSP_LCD_DrawHLine", "BSP_LCD_DrawVLine", "BSP_LCD_DrawLine",
   "BSP_LCD_DrawRect", "BSP_LCD_FillRect", "BSP_LCD_DrawCircle",
   "BSP_LCD_FillCircle", "BSP_LCD_DrawEllipse", "BSP_LCD_FillEllipse",
   "BSP_LCD_DrawPolygon", "BSP_LCD_DisplayChar",
   "BSP_LCD_DisplayStringAt", "BSP_LCD_DisplayStringAtLine",
   "BSP_LCD_DrawBitmap", "BSP_LCD_Clear", "BSP_LCD_ClearStringLine"}

\* C15: the text colour, the background colour and the font are changed only
\* by the setters and by BSP_LCD_Init: a drawing operation returns with all
\* three fields of DrawProp equal to their values before the call.
C15_DrawPropFrame ==
  [][(pc = "idle" /\ call'.fn \in DrawingOps) => DrawProp' = DrawProp]_vars

-----------------------------------------------------------------------------
(* Driver tables with NULL entries.                                         *)

\* C16: whatever entries of the driver table are NULL (DrawHLine, DrawVLine,
\* WritePixel, ReadPixel, SetDisplayWindow, DrawBitmap, DisplayOn,
\* DisplayOff), no operation of the LCD driver calls through a NULL entry.
C16_NoAbsentPrimitive ==
  (lcd_drv # NoDriver /\ call.fn # "-") =>
    \A i \in 1..Len(trace) :
      trace[i].fn \in AllFns => trace[i].fn \in lcd_drv.fns

-----------------------------------------------------------------------------
(* Clearing.                                                                *)

\* C17: BSP_LCD_Clear(color) draws one horizontal line of the length of the
\* display width from column 0 for every row 0 .. height-1, so that every
\* pixel (x, y) with x < width and y < height is written with color: by the
\* DrawHLine entry of the component driver when there is one, and pixel by
\* pixel when there is none.
C17_ClearFillsSurface ==
  Returned("BSP_LCD_Clear") =>
    LET color == call.args[1]
        W == BSP_LCD_GetXSize(lcd_drv)
        H == BSP_LCD_GetYSize(lcd_drv)
    IN  /\ "DrawHLine" \in lcd_drv.fns =>
             trace = [row \in 1..H |-> LcdCall("DrawHLine", <<color, row - 1, 0, W>>)]
        /\ ("DrawHLine" \notin lcd_drv.fns /\ "WritePixel" \in lcd_drv.fns) =>
             /\ \A x \in 0..(W - 1), y \in 0..(H - 1) : <<x, y>> \in PlottedSet(trace)
             /\ \A i \in 1..Len(trace) :
                  trace[i].fn = "WritePixel" /\ trace[i].args[3] = color

\* C18: BSP_LCD_ClearStringLine(line) draws horizontal lines in the
\* background colour for exactly the rows line*H .. line*H + H - 1, where H
\* is the height of the font, and for no row of the next text line (stated
\* for a component driver with a DrawHLine entry, where every horizontal line
\* is one call).
C18_ClearOneBand ==
  (Returned("BSP_LCD_ClearStringLine") /\ "DrawHLine" \in lcd_drv.fns) =>
    LET line == call.args[1]
        H == sFONT[DrawProp.pFont].Height
    IN  /\ \A i \in 1..Len(trace) :
             /\ trace[i].fn = "DrawHLine"
             /\ trace[i].args[1] = DrawProp.BackColor
        /\ {trace[i].args[2] : i \in 1..Len(trace)} = (line * H)..(line * H + H - 1)

-----------------------------------------------------------------------------
(* The display window.                                                      *)

\* C19: BSP_LCD_DrawBitmap reads the width and the height of the picture
\* from its header (the 16-bit halves at offsets 18, 20 and 22, 24), sets the
\* window to that rectangle, calls the DrawBitmap entry of the component
\* driver if there is one, and sets the window to the whole screen again:
\* after it returns the window is (0, 0, width, height of the display) with
\* and without a DrawBitmap entry.  The same holds after BSP_LCD_DrawVLine
\* with a DrawVLine entry.
C19_WindowRestored ==
  /\ Returned("BSP_LCD_DrawBitmap") =>
       LET Xpos == call.args[1]
           pBmp == call.args[3]
           width == pBmp.biWidth_hi * 65536 + pBmp.biWidth_lo
           height == pBmp.biHeight_hi * 65536 + pBmp.biHeight_lo
           Ypos == IF lcd_drv.name = "hx8347d_drv"
                   THEN (BSP_LCD_GetYSize(lcd_drv) - call.args[2] - height) % 65536
                   ELSE call.args[2]
           blit == IF "DrawBitmap" \in lcd_drv.fns
                   THEN <<LcdCall("DrawBitmap", <<Ypos, Xpos, pBmp>>)>>
                   ELSE <<>>
       IN  /\ trace = <<LcdCall("SetDisplayWindow", <<Ypos, Xpos, width, height>>)>>
                      \o blit
                      \o <<LcdCall("SetDisplayWindow", FullWindow(lcd_drv))>>
           /\ window = FullWindow(lcd_drv)
  /\ (Returned("BSP_LCD_DrawVLine") /\ "DrawVLine" \in lcd_drv.fns) =>
       window = FullWindow(lcd_drv)

\* C19, for a component driver with a SetDisplayWindow entry and a picture
\* of which width and height are below 65536: the calls are the window of
\* the picture, the DrawBitmap entry if there is one, and the window of the
\* whole screen, which is the window after the return; the same window is
\* left by BSP_LCD_DrawVLine with a DrawVLine entry.
C19_SmallPictureWindow ==
  /\ (/\ Returned("BSP_LCD_DrawBitmap")
      /\ "SetDisplayWindow" \in lcd_drv.fns
      /\ call.args[3].biWidth_hi = 0
      /\ call.args[3].biHeight_hi = 0) =>
       LET Xpos == call.args[1]
           pBmp == call.args[3]
           Ypos == IF lcd_drv.name = "hx8347d_drv"
                   THEN (BSP_LCD_GetYSize(lcd_drv) - call.args[2]
                           - pBmp.biHeight_lo) % 65536
                   ELSE call.args[2]
           blit == IF "DrawBitmap" \in lcd_drv.fns
                   THEN <<LcdCall("DrawBitmap", <<Ypos, Xpos, pBmp>>)>>
                   ELSE <<>>
       IN  /\ trace = <<LcdCall("SetDisplayWindow",
                                <<Ypos, Xpos, pBmp.biWidth_lo, pBmp.biHeight_lo>>)>>
                      \o blit
                      \o <<LcdCall("SetDisplayWindow", FullWindow(lcd_drv))>>
           /\ window = FullWindow(lcd_drv)
  /\ (/\ Returned("BSP_LCD_DrawVLine")
      /\ {"DrawVLine", "SetDisplayWindow"} \subseteq lcd_drv.fns) =>
       window = FullWindow(lcd_drv)

-----------------------------------------------------------------------------
(* The steps of a page program.                                             *)

\* C20: in BSP_QSPI_Write every chunk runs its steps in this order: the
\* write-enable command and the poll for the write-enable latch, the program
\* command frame with the address and the length of the chunk, the
\* transmission of the data of the chunk, the poll until the
\* write-in-progress bit is clear.  A step is made only after the one before
\* succeeded, so the write enable of chunk k+1 is never issued before the
\* ready poll of chunk k has matched; a run that returns QSPI_OK is made of
\* whole chunks.
C20_ChunkStepOrder ==
  Returned("BSP_QSPI_Write") =>
    LET n == Len(trace)
    IN  /\ \A i \in 1..n :
             LET step == ((i - 1) % 5) + 1
             IN  /\ step = 1 => IsCommand(trace[i], "WRITE_ENABLE_CMD")
                 /\ step = 2 => IsWriteEnable(trace[i - 1], trace[i])
                 /\ step = 3 =>
                      /\ IsCommand(trace[i], "EXT_QUAD_IN_FAST_PROG_CMD")
                      /\ trace[i].cmd.Address =
                           IF i = 3 THEN call.args[1]
                           ELSE U32Add(trace[i - 5].cmd.Address, trace[i - 5].cmd.NbData)
                 /\ step = 4 =>
                      /\ trace[i].fn = "HAL_QSPI_Transmit"
                      /\ trace[i].buf = "pData"
                      /\ trace[i].off = U32Sub(trace[i - 1].cmd.Address, call.args[1])
                 /\ step = 5 => IsReadyPoll(trace[i], HAL_QPSI_TIMEOUT_DEFAULT_VALUE)
        /\ \A i \in 1..(n - 1) : trace[i].ok
        /\ ret = QSPI_OK => (n % 5 = 0 /\ n >= 5 /\ AllOk(trace))

\* a write of two chunks that succeeded
C20_Witness ==
  /\ Returned("BSP_QSPI_Write")
  /\ ret = QSPI_OK
  /\ Len(trace) = 5 + 5
  /\ trace[8].cmd.Address # call.args[1]

-----------------------------------------------------------------------------
(* The steps of BSP_QSPI_Init.                                              *)

\* entry i of the trace t of BSP_QSPI_Init is step i of the initialisation
InitStep(t, i) ==
  CASE i = 1 -> t[i].fn = "HAL_QSPI_DeInit"
    [] i = 2 -> t[i].fn = "QSPI_MspInit"
    [] i = 3 -> t[i].fn = "HAL_QSPI_Init"
    [] i = 4 -> IsCommand(t[i], "RESET_ENABLE_CMD")
    [] i = 5 -> IsCommand(t[i], "RESET_MEMORY_CMD")
    [] i = 6 -> IsReadyPoll(t[i], HAL_QPSI_TIMEOUT_DEFAULT_VALUE)
    [] i = 7 -> IsCommand(t[i], "WRITE_ENABLE_CMD")
    [] i = 8 -> IsWriteEnable(t[i - 1], t[i])
    [] i = 9 -> IsCommand(t[i], "ENTER_4_BYTE_ADDR_MODE_CMD")
    [] i = 10 -> IsReadyPoll(t[i], HAL_QPSI_TIMEOUT_DEFAULT_VALUE)
    [] i = 11 -> IsCommand(t[i], "READ_VOL_CFG_REG_CMD")
    [] i = 12 -> t[i].fn = "HAL_QSPI_Receive" /\ t[i].buf = "reg"
    [] i = 13 -> IsCommand(t[i], "WRITE_ENABLE_CMD")
    [] i = 14 -> IsWriteEnable(t[i - 1], t[i])
    [] i = 15 -> IsCommand(t[i], "WRITE_VOL_CFG_REG_CMD")
    [] i = 16 ->
         /\ t[i].fn = "HAL_QSPI_Transmit"
         /\ t[i].buf = "reg"
         /\ t[i].val % 16 = t[12].val % 16
         /\ t[i].val \div 16 = N25Q256A_DUMMY_CYCLES_READ_QUAD
    [] OTHER -> FALSE

\* C21: BSP_QSPI_Init makes its steps in a fixed order, each only after the
\* one before succeeded: transport de-init, MSP init, transport init with
\* the bus timing and the size of the memory, memory reset (reset enable,
\* reset memory, ready poll), 4-byte address mode (write enable, command,
\* ready poll), dummy cycles (read of the volatile configuration register,
\* write enable, write of the register with only the dummy-cycle field
\* changed).
C21_InitOrder ==
  Returned("BSP_QSPI_Init") =>
    /\ Len(trace) \in 1..MaxInitCalls
    /\ \A i \in 1..Len(trace) : InitStep(trace, i)
    /\ \A i \in 1..(Len(trace) - 1) : trace[i].ok
    /\ Len(trace) >= 3 => QSPIHandle.Init = HandleInit
    /\ ret = QSPI_OK <=> (Len(trace) = MaxInitCalls /\ AllOk(trace))

\* an initialisation that succeeded and changed the register it read, which
\* had bits set outside the dummy-cycle field
C21_Witness ==
  /\ Returned("BSP_QSPI_Init")
  /\ ret = QSPI_OK
  /\ Len(trace) = MaxInitCalls
  /\ trace[12].val % 16 # 0
  /\ trace[16].val # trace[12].val

-----------------------------------------------------------------------------
(* Lines in general position.                                               *)

Max(a, b) == IF a >= b THEN a ELSE b
\* v fits an int16_t
FitsInt16(v) == -(2^15) <= v /\ v <= 2^15 - 1

\* the pixel writes of the trace go from the first end point of the call to
\* the second: max(|X2 - X1|, |Y2 - Y1|) + 1 writes, the first at P1 and the
\* last at P2; from one write to the next the coordinate of the larger
\* difference moves by exactly 1 towards P2 and the other one by 0 or 1
\* towards P2
LineFollowed ==
  LET X1 == call.args[1]
      Y1 == call.args[2]
      X2 == call.args[3]
      Y2 == call.args[4]
      p  == Plotted(trace)
      n  == Max(ABS(X2 - X1), ABS(Y2 - Y1)) + 1
      xmajor == ABS(X2 - X1) >= ABS(Y2 - Y1)
  IN  /\ Len(trace) = n
      /\ Len(p) = n
      /\ <<p[1][1], p[1][2]>> = <<X1, Y1>>
      /\ <<p[n][1], p[n][2]>> = <<X2, Y2>>
      /\ \A i \in 1..(n - 1) :
           LET dx == p[i + 1][1] - p[i][1]
               dy == p[i + 1][2] - p[i][2]
           IN  /\ dx \in {0, Sign(X2 - X1)}
               /\ dy \in {0, Sign(Y2 - Y1)}
               /\ IF xmajor THEN dx = Sign(X2 - X1) ELSE dy = Sign(Y2 - Y1)

\* C22: for end points P1 = (X1, Y1) and P2 = (X2, Y2) whose differences of
\* coordinates fit a signed 16-bit integer, BSP_LCD_DrawLine makes exactly
\* max(|X2 - X1|, |Y2 - Y1|) + 1 pixel writes, the first at P1 and the last
\* at P2; from one write to the next the coordinate of the larger difference
\* moves by exactly 1 towards P2 and the other one by 0 or 1 towards P2.
C22_LinePixels ==
  (/\ LineDrawn
   /\ FitsInt16(call.args[3] - call.args[1])
   /\ FitsInt16(call.args[4] - call.args[2])) => LineFollowed

\* The same for the lines whose end points are less than 2^14 apart in both
\* coordinates: the sums num + numadd then fit the int16_t locals as well.
C22_ShortLinePixels ==
  (/\ LineDrawn
   /\ ABS(call.args[3] - call.args[1]) < 2^14
   /\ ABS(call.args[4] - call.args[2]) < 2^14) => LineFollowed

-----------------------------------------------------------------------------
(* Rectangles.                                                              *)

\* C23: BSP_LCD_DrawRect(x, y, w, h) makes exactly four line draws, the
\* horizontal lines of length w from (x, y) and (x, y + h) and the vertical
\* lines of length h from (x, y) and (x + w, y), and together they cover the
\* four corner pixels (x, y), (x + w, y), (x, y + h) and (x + w, y + h).  The
\* lines are read off the calls of a component driver that has DrawHLine and
\* DrawVLine entries, the pixels off the WritePixel calls of one that draws
\* lines pixel by pixel.
C23_RectOutline ==
  Returned("BSP_LCD_DrawRect") =>
    LET x == call.args[1]
        y == call.args[2]
        w == call.args[3]
        h == call.args[4]
        c == DrawProp.TextColor
        lines == SelectSeq(trace, LAMBDA e : e.fn \in {"DrawHLine", "DrawVLine"})
    IN  /\ {"DrawHLine", "DrawVLine"} \subseteq lcd_drv.fns =>
             lines = <<LcdCall("DrawHLine", <<c, y, x, w>>),
                       LcdCall("DrawHLine", <<c, y + h, x, w>>),
                       LcdCall("DrawVLine", <<c, y, x, h>>),
                       LcdCall("DrawVLine", <<c, y, x + w, h>>)>>
        /\ ({"DrawHLine", "DrawVLine"} \cap lcd_drv.fns = {}
              /\ "WritePixel" \in lcd_drv.fns) =>
             {<<x, y>>, <<x + w, y>>, <<x, y + h>>, <<x + w, y + h>>}
               \subseteq PlottedSet(trace)

-----------------------------------------------------------------------------
(* Horizontal and vertical lines drawn pixel by pixel.                      *)

\* C24: with a component driver without DrawHLine and DrawVLine entries,
\* BSP_LCD_DrawHLine(x, y, len) and BSP_LCD_DrawVLine(x, y, len) make exactly
\* len pixel writes (none for len = 0) and, for len >= 1, write the same set
\* of pixels as BSP_LCD_DrawLine(x, y, x + len - 1, y) and
\* BSP_LCD_DrawLine(x, y, x, y + len - 1): the three line routines hand the
\* component driver the coordinates of a point in the same way.
C24_FallbackLines ==
  (/\ pc = "returned"
   /\ call.fn \in {"BSP_LCD_DrawHLine", "BSP_LCD_DrawVLine"}
   /\ {"DrawHLine", "DrawVLine"} \cap lcd_drv.fns = {}
   /\ "WritePixel" \in lcd_drv.fns) =>
    LET x == call.args[1]
        y == call.args[2]
        len == call.args[3]
        line == IF call.fn = "BSP_LCD_DrawHLine"
                THEN BSP_LCD_DrawLine(<<>>, lcd_drv, DrawProp, x, y, x + len - 1, y)
                ELSE BSP_LCD_DrawLine(<<>>, lcd_drv, DrawProp, x, y, x, y + len - 1)
    IN  /\ Len(trace) = len
        /\ \A i \in 1..Len(trace) : trace[i].fn = "WritePixel"
        /\ len >= 1 => PlottedSet(trace) = PlottedSet(line)

-----------------------------------------------------------------------------
(* Write enable.                                                            *)

\* the instructions that change the memory or its configuration
Modifying ==
  {"EXT_QUAD_IN_FAST_PROG_CMD", "SUBSECTOR_ERASE_CMD", "BULK_ERASE_CMD",
   "ENTER_4_BYTE_ADDR_MODE_CMD", "WRITE_VOL_CFG_REG_CMD"}

\* C25: in every call of the QSPI driver, a command frame that modifies the
\* memory (page program, subsector erase, bulk erase, enter 4-byte address
\* mode, write volatile configuration register) is issued only when the two
\* transactions right before it in the same call were the write-enable
\* command and a poll that matched the write-enable latch; none is sent
\* after a write enable that failed or timed out.
C25_WriteEnableFirst ==
  pc = "returned" =>
    \A i \in 1..Len(trace) :
      (trace[i].fn = "HAL_QSPI_Command" /\ trace[i].cmd.Instruction \in Modifying) =>
        /\ i >= 3
        /\ IsWriteEnable(trace[i - 2], trace[i - 1])
        /\ trace[i - 2].ok
        /\ trace[i - 1].ok

\* a write whose third chunk was not programmed, because the poll for the
\* write-enable latch timed out
C25_Witness ==
  /\ Returned("BSP_QSPI_Write")
  /\ ret = QSPI_ERROR
  /\ Len(ProgFrames(trace)) = 2
  /\ Len(trace) = 5 + 5 + 2
  /\ IsWriteEnable(trace[11], trace[12])
  /\ ~trace[12].ok

-----------------------------------------------------------------------------
(* Number of page programs of a write.                                      *)

\* the number of pages that [a, a+n) intersects, n >= 1 (a + n - 1 is not
\* reduced modulo 2^32)
PagesOf(a, n) ==
  PageIndex(a.hi + n.hi, a.lo + n.lo - 1) - PageIndex(a.hi, a.lo) + 1

\* the frames of a successful write: as many as pages for n >= 1, full
\* pages between the first and the last, page-aligned after the first; one
\* cycle with no payload for n = 0
FramesAsPages ==
  LET fs == ProgFrames(trace)
      a  == call.args[1]
      n  == call.args[2]
  IN  IF n # ToU32(0)
      THEN /\ Len(fs) = PagesOf(a, n)
           /\ \A i \in 2..(Len(fs) - 1) :
                fs[i].cmd.NbData = ToU32(N25Q256A_PAGE_SIZE)
           /\ \A i \in 2..Len(fs) :
                fs[i].cmd.Address.lo % N25Q256A_PAGE_SIZE = 0
      ELSE /\ Len(trace) = 5
           /\ IsWriteEnable(trace[1], trace[2])
           /\ IsCommand(trace[3], "EXT_QUAD_IN_FAST_PROG_CMD")
           /\ trace[3].cmd.NbData = ToU32(0)
           /\ trace[4].fn = "HAL_QSPI_Transmit"
           /\ IsReadyPoll(trace[5], HAL_QPSI_TIMEOUT_DEFAULT_VALUE)

\* C26: when every transport call succeeds, BSP_QSPI_Write(src, a, n) issues
\* as many program command frames as [a, a+n) intersects pages,
\* floor((a+n-1)/P) - floor(a/P) + 1, for n >= 1 (every chunk but the first
\* and the last has length P, every chunk after the first starts on a page
\* boundary); for n = 0 the loop runs once and issues one write-enable,
\* program, transmit, poll cycle with payload length 0.
C26_FrameCount ==
  (Returned("BSP_QSPI_Write") /\ AllOk(trace)) => FramesAsPages

\* the same for writes that end at or below the start of the last page of
\* the 32-bit address space
C26_InRange ==
  LET a == call.args[1]
      n == call.args[2]
  IN  (Returned("BSP_QSPI_Write") /\ AllOk(trace)
         /\ U32Le(a, U32Add(a, n))
         /\ U32Le(U32Add(a, n), Top(N25Q256A_PAGE_SIZE)))
        => FramesAsPages

-----------------------------------------------------------------------------
(* The stepping loop of the circles.                                        *)

\* a call of BSP_LCD_DrawCircle or BSP_LCD_FillCircle has returned
CircleCalled ==
  /\ pc = "returned"
  /\ call.fn \in {"BSP_LCD_DrawCircle", "BSP_LCD_FillCircle"}

\* the loop ended within Radius + 1 passes, none of which decremented cury
\* at 0; with a WritePixel entry the circle shows eight writes for each
\* pass
CircleLoopBounded ==
  LET Radius == ToUint16(call.args[3])
      st == CircleLoop(CircleStart(Radius), Radius + 2)
  IN  /\ Len(st) <= Radius + 1
      /\ \A i \in 1..Len(st) :
           ~I32Neg(st[i].decision) => st[i].cury # ToU32(0)
      /\ (call.fn = "BSP_LCD_DrawCircle" /\ "WritePixel" \in lcd_drv.fns)
           => Len(trace) = 8 * Len(st)

\* C27: BSP_LCD_DrawCircle and BSP_LCD_FillCircle terminate after at most
\* Radius + 1 passes of their stepping loop for every Radius >= 0, Radius 0
\* included, and the unsigned loop variables curx and cury never wrap below
\* zero (cury is never decremented when it is 0).
C27_CircleLoopBound == CircleCalled => CircleLoopBounded

\* the same for the radii from 1 on
C27_PositiveRadius ==
  (CircleCalled /\ ToUint16(call.args[3]) >= 1) => CircleLoopBounded

-----------------------------------------------------------------------------
(* The scratch buffer of the glyphs.                                        *)

\* lcd.c:115  the number of bytes of bitmap[]
BitmapSize == MAX_HEIGHT_FONT * MAX_WIDTH_FONT * 2 + OFFSET_BITMAP

\* the picture in a buffer: its header and the pixels below the file size
\* that the header gives
Picture(bmp) ==
  LET size == bmp.bfSize_hi * Half + bmp.bfSize_lo
      in   == [i \in 1..Len(bmp.pixels) |->
                 [bmp.pixels[i] EXCEPT !.at = @ \cap (OFFSET_BITMAP..(size - 1))]]
  IN  [bmp EXCEPT !.pixels = SelectSeq(in, LAMBDA l : l.at # {})]

\* the buffer that the character of the call leaves when drawn, in the font
\* and the colours of DrawProp, into a buffer that holds nothing
FreshGlyph ==
  BSP_LCD_DisplayChar(<<>>, lcd_drv, DrawProp, BitmapZero,
                      call.args[1], call.args[2], call.args[3]).bmp

\* for every font of at most 17 x 24 = 408 pixels, every index written lies
\* inside the buffer, and the indices written, each with the one after it,
\* are the offsets 54 .. 54 + 2*Width*Height - 1
IndicesInBuffer ==
  \A f \in Fonts :
    LET W  == sFONT[f].Width
        H  == sFONT[f].Height
        at == CharIndices(W, H)
    IN  W * H <= MAX_HEIGHT_FONT * MAX_WIDTH_FONT =>
          /\ \A i \in at : i >= OFFSET_BITMAP /\ i + 1 < BitmapSize
          /\ at \cup {i + 1 : i \in at}
               = OFFSET_BITMAP..(OFFSET_BITMAP + 2 * W * H - 1)

\* C28: for every font whose glyph area Width x Height is at most
\* 17 x 24 = 408 pixels (the fonts 5x8, 7x12, 11x16, 14x20, 17x24), every
\* index that LCD_DrawChar writes in the scratch buffer lies inside it
\* (index + 1 < 17*24*2 + 54), and a character draw overwrites all
\* Width x Height two-byte cells at the offsets 54 .. 54 + 2*Width*Height - 1,
\* so that the buffer handed to DrawBitmap depends on the glyph and the
\* colours only, not on the character drawn before.
C28_GlyphBuffer ==
  Returned("BSP_LCD_DisplayChar") =>
    /\ IndicesInBuffer
    /\ bitmap = FreshGlyph
    /\ \A i \in 1..Len(trace) :
         trace[i].fn = "DrawBitmap" => trace[i].args[3] = FreshGlyph

\* C28, with the picture for the buffer: the indices written lie inside the
\* buffer and are the offsets 54 .. 54 + 2*Width*Height - 1, so that the
\* picture handed to DrawBitmap, which is the header and the bytes below
\* the file size 54 + 2*Width*Height of the header, depends on the glyph,
\* the font and the colours only, not on the character drawn before; the
\* bytes from 54 + 2*Width*Height on keep what a character of a larger font
\* left there.
C28_GlyphPicture ==
  Returned("BSP_LCD_DisplayChar") =>
    /\ IndicesInBuffer
    /\ Picture(bitmap) = FreshGlyph
    /\ \A i \in 1..Len(trace) :
         trace[i].fn = "DrawBitmap" => Picture(trace[i].args[3]) = FreshGlyph
    /\ \A i \in 2..Len(bitmap.pixels) :
         /\ sFONT[bitmap.pixels[i].pChar.table].Width
              * sFONT[bitmap.pixels[i].pChar.table].Height
              > sFONT[DrawProp.pFont].Width * sFONT[DrawProp.pFont].Height
         /\ \A j \in bitmap.pixels[i].at :
              j >= OFFSET_BITMAP
                   + 2 * sFONT[DrawProp.pFont].Width * sFONT[DrawProp.pFont].Height

\* a character of the smallest font in another text colour, drawn into the
\* buffer that held a character of the largest font
C28_Witness ==
  /\ Returned("BSP_LCD_DisplayChar")
  /\ DrawProp.pFont = "Font8"
  /\ DrawProp.TextColor = 63488
  /\ Len(trace) >= 2
  /\ trace[2].fn = "DrawBitmap"
  /\ Len(bitmap.pixels) = 2
  /\ bitmap.pixels[2].pChar.table = "Font24"
  /\ bitmap.pixels[2].TextColor = 0
=============================================================================
